---- MODULE Spec2Model ----
(***************************************************************************)
(* A model of the LoRaWAN PHY payload parser (lorawan_parser.py), its      *)
(* cipher layer (lorawan_cipher.py) and the AES wrappers (aes_ecb.py,      *)
(* aes_cmac.py).                                                           *)
(*                                                                         *)
(* Conventions                                                             *)
(*   - a byte string (bytes, bytearray) is a sequence over 0..255;         *)
(*   - a bit string ("0101") is a sequence over {0,1};                     *)
(*   - a Python dict is a function whose DOMAIN is its set of keys;        *)
(*   - None is the empty tuple and a value v that may be None is <<v>>;    *)
(*   - a function that may raise returns a record whose field exc is the   *)
(*     name of the exception, or NoExc when it returned normally.          *)
(***************************************************************************)
EXTENDS Integers, Sequences, FiniteSets, TLC

VARIABLES
    opt,            \* module global opt of lorawan_parser (verbose, debug_level)
    __parse_only,   \* module global __parse_only of lorawan_parser
    pc,             \* position of the caller: "idle" before its call, "done" after
    call,           \* the invocation in progress: function name and arguments
    result,         \* what the invocation returned or raised
    hist            \* the caller's record of its previous completed invocation

vars == <<opt, __parse_only, pc, call, result, hist>>

----------------------------------------------------------------------------
(* Python values *)

None == <<>>
Some(v) == <<v>>
NoExc == ""

Min(a, b) == IF a < b THEN a ELSE b
Max(a, b) == IF a > b THEN a ELSE b

\* s[a:b] of Python for a sequence s and integers a, b (negative counts from the end)
PySlice(s, a, b) ==
    LET n  == Len(s)
        lo == IF a < 0 THEN Max(n + a, 0) ELSE Min(a, n)
        hi == IF b < 0 THEN Max(n + b, 0) ELSE Min(b, n)
    IN  IF lo >= hi THEN <<>> ELSE SubSeq(s, lo + 1, hi)

\* s[a:] of Python
PyFrom(s, a) == PySlice(s, a, Len(s))

\* a faulty reversal that leaves the order of the bytes as it is
ReverseNot(s) == s

\* s[::-1] of Python
Reverse(s) == [i \in 1..Len(s) |-> s[Len(s) + 1 - i]]

\* b"\x00" * n  (n <= 0 gives the empty string)
Zeros(n) == [i \in 1..Max(n, 0) |-> 0]

\* the element of the one-element set S; TheOnly({F(x) : x \in {e}}) is
\* F(e) with e evaluated once, for a local e that F reads many times
TheOnly(S) == CHOOSE x \in S : TRUE

\* a ^ b on two bytes
Xor8(a, b) ==
      ((a + b) % 2)
    + 2   * (((a \div 2)   + (b \div 2))   % 2)
    + 4   * (((a \div 4)   + (b \div 4))   % 2)
    + 8   * (((a \div 8)   + (b \div 8))   % 2)
    + 16  * (((a \div 16)  + (b \div 16))  % 2)
    + 32  * (((a \div 32)  + (b \div 32))  % 2)
    + 64  * (((a \div 64)  + (b \div 64))  % 2)
    + 128 * (((a \div 128) + (b \div 128)) % 2)

\* bytewise xor of two byte strings of the same length
XorBytes(a, b) == [i \in 1..Len(a) |-> Xor8(a[i], b[i])]

----------------------------------------------------------------------------
(* aes_ecb.py *)

BlockSize == 16

\* The block cipher of the Crypto library, AES.new(key, MODE_ECB).encrypt on
\* one 16-byte block. The library is not part of the repository; it is stood
\* for by a keyed bijection of the 16-byte blocks, of which AES_decrypt is
\* the inverse.
AES_encrypt(key, blk) ==
    [i \in 1..BlockSize |->
        (Xor8(blk[((i + 4) % BlockSize) + 1], key[i]) + 7 * (i - 1) + 1) % 256]

\* AES.new(key, MODE_ECB).decrypt on one 16-byte block
AES_decrypt(key, blk) ==
    [j \in 1..BlockSize |->
        LET i == ((j + 10) % BlockSize) + 1
        IN  Xor8((blk[i] + 256 - ((7 * (i - 1) + 1) % 256)) % 256, key[i])]

\* The block cipher itself. AES_encrypt above stands for it wherever only
\* its being a keyed bijection matters; the tags aes_cmac.py compares with
\* those of RFC 4493 are values of AES-128 (FIPS 197), the cipher the
\* library's AES is.

AES_SBox ==
    <<99, 124, 119, 123, 242, 107, 111, 197,  48,   1, 103,  43, 254, 215, 171, 118,
      202, 130, 201, 125, 250,  89,  71, 240, 173, 212, 162, 175, 156, 164, 114, 192,
      183, 253, 147,  38,  54,  63, 247, 204,  52, 165, 229, 241, 113, 216,  49,  21,
        4, 199,  35, 195,  24, 150,   5, 154,   7,  18, 128, 226, 235,  39, 178, 117,
        9, 131,  44,  26,  27, 110,  90, 160,  82,  59, 214, 179,  41, 227,  47, 132,
       83, 209,   0, 237,  32, 252, 177,  91, 106, 203, 190,  57,  74,  76,  88, 207,
      208, 239, 170, 251,  67,  77,  51, 133,  69, 249,   2, 127,  80,  60, 159, 168,
       81, 163,  64, 143, 146, 157,  56, 245, 188, 182, 218,  33,  16, 255, 243, 210,
      205,  12,  19, 236,  95, 151,  68,  23, 196, 167, 126,  61, 100,  93,  25, 115,
       96, 129,  79, 220,  34,  42, 144, 136,  70, 238, 184,  20, 222,  94,  11, 219,
      224,  50,  58,  10,  73,   6,  36,  92, 194, 211, 172,  98, 145, 149, 228, 121,
      231, 200,  55, 109, 141, 213,  78, 169, 108,  86, 244, 234, 101, 122, 174,   8,
      186, 120,  37,  46,  28, 166, 180, 198, 232, 221, 116,  31,  75, 189, 139, 138,
      112,  62, 181, 102,  72,   3, 246,  14,  97,  53,  87, 185, 134, 193,  29, 158,
      225, 248, 152,  17, 105, 217, 142, 148, 155,  30, 135, 233, 206,  85,  40, 223,
      140, 161, 137,  13, 191, 230,  66, 104,  65, 153,  45,  15, 176,  84, 187,  22>>

\* AES.new(key, MODE_ECB).encrypt(blk) for a 16-byte key and one block: the
\* state is kept column by column, as the bytes of the block come; rk is
\* the round key, rcon the round constant of the next one
AES128(key, blk) ==
    LET xtime(b) == IF b < 128 THEN 2 * b ELSE Xor8((2 * b) % 256, 27)
        S(b)     == AES_SBox[b + 1]
        NextKey(rk, rcon) ==
            LET t  == <<Xor8(S(rk[14]), rcon), S(rk[15]), S(rk[16]), S(rk[13])>>
                RECURSIVE w(_, _)
                w(prev, k) ==
                    IF k > 4 THEN <<>>
                    ELSE TheOnly({cur \o w(cur, k + 1) :
                                  cur \in {XorBytes(SubSeq(rk, 4 * k - 3, 4 * k), prev)}})
            IN  w(t, 1)
        \* SubBytes and ShiftRows: the byte of row r, column c
        sub(st, r, c) == S(st[(r % 4) + 4 * ((c + r) % 4) + 1])
        \* MixColumns on top of them
        mix(st, r, c) ==
            TheOnly({TheOnly({Xor8(x[1], x[2]) :
                              x \in {<<Xor8(a[1], a[2]), Xor8(a[3], a[4])>>}}) :
                     a \in {<<xtime(sub(st, r, c)),
                              TheOnly({Xor8(xtime(b), b) : b \in {sub(st, r + 1, c)}}),
                              sub(st, r + 2, c), sub(st, r + 3, c)>>}})
        Round(st, rk, r) ==
            XorBytes(SubSeq([i \in 1..16 |->
                                IF r < 10 THEN mix(st, (i - 1) % 4, (i - 1) \div 4)
                                ELSE sub(st, (i - 1) % 4, (i - 1) \div 4)], 1, 16),
                     rk)
        RECURSIVE rounds(_, _, _, _)
        rounds(st, rk, rcon, r) ==
            IF r > 10 THEN st
            ELSE TheOnly({TheOnly({rounds(nst, nk, nrcon, r + 1) :
                                   nst \in {SubSeq(Round(st, nk, r), 1, 16)}}) :
                          nk \in {NextKey(rk, rcon)}, nrcon \in {xtime(rcon)}})
    IN  TheOnly({rounds(SubSeq(XorBytes(b, k), 1, 16), k, 1, 1) :
                 k \in {SubSeq(key, 1, 16)}, b \in {SubSeq(blk, 1, 16)}})

\* AES_ECB.encrypt: each 16-byte slice, the last one padded with zeros
RECURSIVE AES_ECB_encrypt(_, _)
AES_ECB_encrypt(key, data) ==
    IF Len(data) = 0 THEN <<>>
    ELSE LET blk == PySlice(data, 0, 16)
         IN  AES_encrypt(key, blk \o Zeros(16 - Len(blk)))
                 \o AES_ECB_encrypt(key, PyFrom(data, 16))

\* AES_ECB.decrypt: each 16-byte slice; enc_data is a multiple of 16 bytes
RECURSIVE AES_ECB_decrypt(_, _)
AES_ECB_decrypt(key, enc_data) ==
    IF Len(enc_data) = 0 THEN <<>>
    ELSE AES_decrypt(key, PySlice(enc_data, 0, 16))
             \o AES_ECB_decrypt(key, PyFrom(enc_data, 16))

\* a faulty aes128_encrypt: a block of padding is added to data that already
\* fills its last block
aes128_encrypt_padding(key, plain_data) ==
    AES_ECB_encrypt(key, plain_data \o Zeros(BlockSize - (Len(plain_data) % BlockSize)))

aes128_encrypt(key, plain_data) == AES_ECB_encrypt(key, plain_data)

aes128_decrypt(key, enc_data) == AES_ECB_decrypt(key, enc_data)

----------------------------------------------------------------------------
(* aes_cmac.py: AES_CMAC is CMAC.new(key, ciphermod=AES) of the library,   *)
(* the algorithm of RFC 4493 over the block cipher.                        *)

\* a 16-byte string shifted left by one bit
ShiftLeft1(b) ==
    [i \in 1..BlockSize |->
        ((2 * b[i]) % 256) + (IF i < BlockSize THEN b[i + 1] \div 128 ELSE 0)]

CMAC_Rb == Zeros(15) \o <<135>>

\* a faulty subkey: the shifted-out bit is dropped, Rb never folded in
CMAC_subkey_without_Rb(l) == ShiftLeft1(l)

\* a subkey of RFC 4493: l doubled in GF(2^128)
CMAC_subkey(l) ==
    IF l[1] < 128 THEN ShiftLeft1(l) ELSE XorBytes(ShiftLeft1(l), CMAC_Rb)

\* CMAC.new(key, ciphermod).update(msg).digest(): the blocks of msg but the
\* last are chained through the block cipher E, the last one is masked with
\* a subkey, padded first when it is not full. E is AES-128 for the
\* ciphermod "AES" and the bijection that stands for it for any other.
CMAC_digest(ciphermod, key, msg) ==
    LET E(k, b) == IF ciphermod = "AES" THEN AES128(k, b) ELSE AES_encrypt(k, b)
        RECURSIVE chain(_, _)
        chain(x, m) ==
            IF Len(m) = 0 THEN x
            ELSE TheOnly({chain(y, rest) :
                          y \in {SubSeq(E(key, XorBytes(x, PySlice(m, 0, 16))), 1, 16)},
                          rest \in {PyFrom(m, 16)}})
        n    == IF Len(msg) = 0 THEN 1 ELSE (Len(msg) + 15) \div 16
        head == PySlice(msg, 0, 16 * (n - 1))
        tail == PyFrom(msg, 16 * (n - 1))
        \* the last block, masked with the subkey k1 when it is full and,
        \* once padded, with the subkey k2 when it is not
        last(k1) ==
            IF Len(tail) = 16
            THEN XorBytes(tail, k1)
            ELSE XorBytes(tail \o <<128>> \o Zeros(15 - Len(tail)), CMAC_subkey(k1))
    IN  TheOnly({E(key, XorBytes(chain(Zeros(16), head), last(k1))) :
                 k1 \in {CMAC_subkey(E(key, Zeros(16)))}})

\* AES_CMAC(key).update(msg).digest()
AES_CMAC_digest(key, msg) == CMAC_digest("AES as a bijection", key, msg)

----------------------------------------------------------------------------
(* lorawan_cipher.py *)

UP_LINK == 0
DOWN_LINK == 1

\* the block Ai of lorawan_frmp_encryption for counter value ctr
frmp_Ai(devaddr, msg_dir, fcnt, ctr) ==
    <<1, 0, 0, 0, 0, msg_dir,
      devaddr[4], devaddr[3], devaddr[2], devaddr[1],
      fcnt[4], fcnt[3], fcnt[2], fcnt[1],
      0, ctr % 256>>

\* the loop of lorawan_frmp_encryption from byte offset on, with counter ctr:
\* full blocks while size >= 16, then the final short block
RECURSIVE frmp_blocks(_, _, _, _, _, _)
frmp_blocks(key, msg, devaddr, msg_dir, fcnt, ctr) ==
    LET Si == AES_ECB_encrypt(key, frmp_Ai(devaddr, msg_dir, fcnt, ctr))
    IN  IF Len(msg) >= 16
        THEN [i \in 1..16 |-> Xor8(msg[i], Si[i])]
                 \o frmp_blocks(key, PyFrom(msg, 16), devaddr, msg_dir, fcnt, ctr + 1)
        ELSE IF Len(msg) > 0
        THEN [i \in 1..Len(msg) |-> Xor8(msg[i], Si[i])]
        ELSE <<>>

\* a faulty lorawan_frmp_encryption: the final short block is left out
lorawan_frmp_encryption_full_blocks(key, msg, devaddr, msg_dir, fcnt) ==
    frmp_blocks(key, PySlice(msg, 0, 16 * (Len(msg) \div 16)), devaddr, msg_dir, fcnt, 1)

lorawan_frmp_encryption(key, msg, devaddr, msg_dir, fcnt) ==
    frmp_blocks(key, msg, devaddr, msg_dir, fcnt, 1)

lorawan_aes128_encrypt(key, msg) == aes128_encrypt(key, msg)

\* {"mic": m[:4][::-1], "cmac": m}
lorawan_aes128_cmac(key, msg) ==
    TheOnly({[mic |-> Reverse(PySlice(m, 0, 4)), cmac |-> m] :
             m \in {AES_CMAC_digest(key, msg)}})

\* what filling B0 raises: devaddr[3] and fcnt[3] need four bytes each, and
\* B0[15] = len(msg) a length that is a byte
frmp_B0_exc(devaddr, fcnt, msg) ==
    IF Len(devaddr) < 4 \/ Len(fcnt) < 4 THEN "IndexError"
    ELSE IF Len(msg) > 255 THEN "ValueError"
    ELSE NoExc

\* a faulty B0: devaddr and fcnt put in as they are given, in big endian
frmp_B0_big_endian(devaddr, msg_dir, fcnt, msg) ==
    <<73, 0, 0, 0, 0, msg_dir,
      devaddr[1], devaddr[2], devaddr[3], devaddr[4],
      fcnt[1], fcnt[2], fcnt[3], fcnt[4],
      0, Len(msg)>>

\* B0 of lorawan_frmp_integrity, once filled
frmp_B0(devaddr, msg_dir, fcnt, msg) ==
    <<73, 0, 0, 0, 0, msg_dir,
      devaddr[4], devaddr[3], devaddr[2], devaddr[1],
      fcnt[4], fcnt[3], fcnt[2], fcnt[1],
      0, Len(msg)>>

lorawan_frmp_integrity(key, msg, devaddr, msg_dir, fcnt) ==
    lorawan_aes128_cmac(key, frmp_B0(devaddr, msg_dir, fcnt, msg) \o msg)

\* a faulty plain text: the three values as they are given, in host order
get_keys_plain_host_order(lead, devnonce, appnonce, netid) ==
    LET base_data == appnonce \o netid \o devnonce
        pad16     == Zeros(16 - ((1 + Len(base_data)) % 16))
    IN  <<lead>> \o base_data \o pad16

\* what lorawan_get_keys encrypts for the key with the leading byte lead:
\* lead + base_data + pad16
get_keys_plain(lead, devnonce, appnonce, netid) ==
    LET base_data == Reverse(appnonce) \o Reverse(netid) \o Reverse(devnonce)
        pad16     == Zeros(16 - ((1 + Len(base_data)) % 16))
    IN  <<lead>> \o base_data \o pad16

lorawan_get_keys(appkey, devnonce, appnonce, netid) ==
    [nwkskey |-> aes128_encrypt(appkey, get_keys_plain(1, devnonce, appnonce, netid)),
     appskey |-> aes128_encrypt(appkey, get_keys_plain(2, devnonce, appnonce, netid))]

----------------------------------------------------------------------------
(* lorawan_parser.py: constants, conversions and printing *)

MSGDIR_DOWN == 1
MSGDIR_UP == 0
MSGDIR_UNKNOWN == 99
MIC_SIZE == 4

\* the byte v as its 8-character bit string
Bits8(v) ==
    <<(v \div 128) % 2, (v \div 64) % 2, (v \div 32) % 2, (v \div 16) % 2,
      (v \div 8) % 2, (v \div 4) % 2, (v \div 2) % 2, v % 2>>

\* x2bin of an int below 256: bin(v)[2:].zfill(8)
x2bin_int(v) == Bits8(v)

\* x2bin of a byte string: bin(int.from_bytes(v, "big"))[2:].zfill(len(v)*8);
\* for the empty string that is "0", one character long
RECURSIVE x2bin(_)
x2bin(v) ==
    IF Len(v) = 0 THEN <<0>>
    ELSE IF Len(v) = 1 THEN Bits8(v[1])
    ELSE Bits8(v[1]) \o x2bin(Tail(v))

\* int(b, 2) of a non-empty bit string
RECURSIVE int2(_)
int2(b) ==
    IF Len(b) = 0 THEN 0
    ELSE 2 * int2(SubSeq(b, 1, Len(b) - 1)) + b[Len(b)]

\* x2int of a byte string: int.from_bytes(v, "little")
RECURSIVE x2int(_)
x2int(v) ==
    IF Len(v) = 0 THEN 0 ELSE v[1] + 256 * x2int(Tail(v))

\* x2int of a bit string: int(v, 2), and None for the empty string
x2int_bin(v) == IF Len(v) = 0 THEN None ELSE Some(int2(v))

\* The lines written to stdout. A line is <<function, tag>> or
\* <<function, tag, number>>; g holds the globals the printing reads:
\* g.parse_only (__parse_only), g.verbose and g.debug_level (opt).
\* The field lines and detail texts of the per-command decoders
\* (parse_maccmd_*) are not part of the lines.
print_vt(g, tag) ==
    IF g.parse_only THEN <<>> ELSE << <<"print_vt", tag>> >>

print_v(g, tag) ==
    IF g.parse_only THEN <<>> ELSE << <<"print_v", tag>> >>

print_vn(g, tag, n) ==
    IF g.parse_only THEN <<>> ELSE << <<"print_v", tag, n>> >>

print_d(g, tag) ==
    IF g.parse_only \/ g.debug_level = 0 THEN <<>> ELSE << <<"print_d", tag>> >>

print_w(g, msg) ==
    IF g.verbose THEN << <<"print_w", msg>> >> ELSE <<>>

----------------------------------------------------------------------------
(* lorawan_parser.py: the decoders of the MAC commands. Each returns the    *)
(* exception it raises on the bytes mac_cmd it is handed, or NoExc.         *)

\* raises ValueError unless freq_x is 3 bytes long
parse_macsubcmd_Frequency(freq_x) ==
    [exc |-> IF Len(freq_x) # 3 THEN "ValueError" ELSE NoExc]

parse_macsubcmd_DeviceMode_class(class_i) == [exc |-> NoExc]

parse_macsubcmd_ServDev_LoRaWAN_version(ver_x) == [exc |-> NoExc]

parse_maccmd_ResetInd(mac_cmd) ==
    parse_macsubcmd_ServDev_LoRaWAN_version(PySlice(mac_cmd, 0, 1))

parse_maccmd_ResetConf(mac_cmd) ==
    parse_macsubcmd_ServDev_LoRaWAN_version(PySlice(mac_cmd, 0, 1))

parse_maccmd_LinkCheckReq(mac_cmd) == [exc |-> NoExc]

parse_maccmd_LinkCheckAns(mac_cmd) == [exc |-> NoExc]

\* ChMask_b[i] for i in range(16) needs the 16 bits of a 2-byte ChMask
parse_maccmd_LinkADRReq(mac_cmd) ==
    LET ChMask_b == x2bin(PySlice(mac_cmd, 1, 3))
    IN  [exc |-> IF Len(ChMask_b) < 16 THEN "IndexError" ELSE NoExc]

\* Status_x = mac_cmd[0]
parse_maccmd_LinkADRAns(mac_cmd) ==
    [exc |-> IF Len(mac_cmd) = 0 THEN "IndexError" ELSE NoExc]

\* 1./(2**x2int(MaxDCycle_b)) with x2int("") = None
parse_maccmd_DutyCycleReq(mac_cmd) ==
    LET DutyCyclePL_b == x2bin(PySlice(mac_cmd, 0, 1))
        MaxDCycle_b   == PySlice(DutyCyclePL_b, 4, 8)
    IN  [exc |-> IF MaxDCycle_b # <<0, 0, 0, 0>> /\ x2int_bin(MaxDCycle_b) = None
                 THEN "TypeError" ELSE NoExc]

parse_maccmd_DutyCycleAns(mac_cmd) == [exc |-> NoExc]

\* forx is not defined: the print of RX2DataRate raises NameError
parse_maccmd_RXParamSetupReq(mac_cmd) == [exc |-> "NameError"]

parse_maccmd_RXParamSetupAns(mac_cmd) == [exc |-> NoExc]

parse_maccmd_DevStatusReq(mac_cmd) == [exc |-> NoExc]

\* Margin_b[0] of Margin_b = Status_b[2:8] raises on the empty string;
\* decoded is Margin_i, the margin printed: ~n of Python is -n - 1
parse_maccmd_DevStatusAns(mac_cmd) ==
    LET Status_b == x2bin(PySlice(mac_cmd, 1, 2))
        Margin_b == PySlice(Status_b, 2, 8)
        Margin_i == IF Margin_b[1] = 0 THEN int2(Margin_b)
                    ELSE (-int2(Margin_b) - 1) + 32
    IN  IF Len(Margin_b) = 0 THEN [exc |-> "IndexError", decoded |-> None]
        ELSE [exc |-> NoExc, decoded |-> Some(Margin_i)]

parse_maccmd_NewChannelReq(mac_cmd) ==
    parse_macsubcmd_Frequency(PySlice(mac_cmd, 1, 4))

parse_maccmd_NewChannelAns(mac_cmd) == [exc |-> NoExc]

\* int(Del_b, 2) of Del_b = Settings_b[4:8], unless Del_b == "0"; int("", 2)
\* raises; decoded is Del_i, the delay printed
parse_maccmd_RXTimingSetupReq(mac_cmd) ==
    LET Settings_b == x2bin(PySlice(mac_cmd, 0, 1))
        Del_b      == PySlice(Settings_b, 4, 8)
        Del_i      == IF Del_b = <<0>> THEN 1 ELSE int2(Del_b)
    IN  IF Del_b # <<0>> /\ Len(Del_b) = 0
        THEN [exc |-> "ValueError", decoded |-> None]
        ELSE [exc |-> NoExc, decoded |-> Some(Del_i)]

parse_maccmd_RXTimingSetupAns(mac_cmd) == [exc |-> NoExc]

\* [8,10,...][x2int(MaxEIRP_b)] with x2int("") = None
parse_maccmd_TxParamSetupReq(mac_cmd) ==
    LET DwellTime_b == x2bin(PySlice(mac_cmd, 0, 1))
        MaxEIRP_b   == PySlice(DwellTime_b, 4, 8)
    IN  [exc |-> IF x2int_bin(MaxEIRP_b) = None THEN "TypeError" ELSE NoExc]

parse_maccmd_TxParamSetupAns(mac_cmd) == [exc |-> NoExc]

parse_maccmd_DlChannelReq(mac_cmd) ==
    parse_macsubcmd_Frequency(PySlice(mac_cmd, 1, 4))

parse_maccmd_DlChannelAns(mac_cmd) == [exc |-> NoExc]

\* PingSlotParam_x = mac_cmd[0]
parse_maccmd_PingSlotInfoReq(mac_cmd) ==
    [exc |-> IF Len(mac_cmd) = 0 THEN "IndexError" ELSE NoExc]

parse_maccmd_PingSlotInfoAns(mac_cmd) == [exc |-> NoExc]

\* datarate_i = int(datarate_i, 2) reads datarate_i before it is assigned
parse_maccmd_PingSlotChannelReq(mac_cmd) ==
    LET f == parse_macsubcmd_Frequency(PySlice(mac_cmd, 0, 3))
    IN  [exc |-> IF f.exc # NoExc THEN f.exc ELSE "UnboundLocalError"]

parse_maccmd_PingSlotChannelAns(mac_cmd) == [exc |-> NoExc]

parse_maccmd_BeaconTimingReq(mac_cmd) == [exc |-> NoExc]

\* the bytes int(x, 16) accepts as a one-character string: 0-9, A-F, a-f
HexDigitBytes == (48..57) \cup (65..70) \cup (97..102)

\* Channel_i = int(Channel_x, 16) parses the byte string Channel_x as text
parse_maccmd_BeaconTimingAns(mac_cmd) ==
    LET Channel_x == PySlice(mac_cmd, 2, 3)
    IN  [exc |-> IF Len(Channel_x) = 1 /\ Channel_x[1] \in HexDigitBytes
                 THEN NoExc ELSE "ValueError"]

parse_maccmd_BeaconFreqReq(mac_cmd) == [exc |-> NoExc]

parse_maccmd_BeaconFreqAns(mac_cmd) == [exc |-> NoExc]

\* parse_macsubcmd_DeviceMode_class(mac_cmd[0])
parse_maccmd_DeviceModeInd(mac_cmd) ==
    IF Len(mac_cmd) = 0 THEN [exc |-> "IndexError"]
    ELSE parse_macsubcmd_DeviceMode_class(mac_cmd[1])

parse_maccmd_DeviceModeConf(mac_cmd) ==
    IF Len(mac_cmd) = 0 THEN [exc |-> "IndexError"]
    ELSE parse_macsubcmd_DeviceMode_class(mac_cmd[1])

\* a faulty entry of mac_cmd_tab: the two directions change places
TabEntrySwapped(upName, upSize, downName, downSize) ==
    (MSGDIR_UP :> [name |-> downName, size |-> downSize,
                   parser |-> "parse_maccmd_" \o downName])
    @@ (MSGDIR_DOWN :> [name |-> upName, size |-> upSize,
                        parser |-> "parse_maccmd_" \o upName])

\* one entry of mac_cmd_tab: the two directions of a CID
TabEntry(upName, upSize, downName, downSize) ==
    (MSGDIR_UP :> [name |-> upName, size |-> upSize,
                   parser |-> "parse_maccmd_" \o upName])
    @@ (MSGDIR_DOWN :> [name |-> downName, size |-> downSize,
                        parser |-> "parse_maccmd_" \o downName])

mac_cmd_tab ==
       (1  :> TabEntry("ResetInd", 1, "ResetConf", 1))
    @@ (2  :> TabEntry("LinkCheckReq", 0, "LinkCheckAns", 2))
    @@ (3  :> TabEntry("LinkADRAns", 1, "LinkADRReq", 4))
    @@ (4  :> TabEntry("DutyCycleAns", 0, "DutyCycleReq", 1))
    @@ (5  :> TabEntry("RXParamSetupAns", 1, "RXParamSetupReq", 4))
    @@ (6  :> TabEntry("DevStatusAns", 2, "DevStatusReq", 0))
    @@ (7  :> TabEntry("NewChannelAns", 1, "NewChannelReq", 5))
    @@ (8  :> TabEntry("RXTimingSetupAns", 0, "RXTimingSetupReq", 1))
    @@ (9  :> TabEntry("TxParamSetupAns", 0, "TxParamSetupReq", 1))
    @@ (10 :> TabEntry("DlChannelAns", 1, "DlChannelReq", 4))
    @@ (16 :> TabEntry("PingSlotInfoReq", 1, "PingSlotInfoAns", 0))
    @@ (17 :> TabEntry("PingSlotChannelAns", 4, "PingSlotChannelReq", 4))
    @@ (18 :> TabEntry("BeaconTimingReq", 0, "BeaconTimingAns", 3))
    @@ (19 :> TabEntry("BeaconFreqAns", 1, "BeaconFreqReq", 3))
    @@ (32 :> TabEntry("DeviceModeInd", 1, "DeviceModeConf", 1))

\* t["parser"](cmd)
CallParser(parser, cmd) ==
    CASE parser = "parse_maccmd_ResetInd"           -> parse_maccmd_ResetInd(cmd)
      [] parser = "parse_maccmd_ResetConf"          -> parse_maccmd_ResetConf(cmd)
      [] parser = "parse_maccmd_LinkCheckReq"       -> parse_maccmd_LinkCheckReq(cmd)
      [] parser = "parse_maccmd_LinkCheckAns"       -> parse_maccmd_LinkCheckAns(cmd)
      [] parser = "parse_maccmd_LinkADRAns"         -> parse_maccmd_LinkADRAns(cmd)
      [] parser = "parse_maccmd_LinkADRReq"         -> parse_maccmd_LinkADRReq(cmd)
      [] parser = "parse_maccmd_DutyCycleAns"       -> parse_maccmd_DutyCycleAns(cmd)
      [] parser = "parse_maccmd_DutyCycleReq"       -> parse_maccmd_DutyCycleReq(cmd)
      [] parser = "parse_maccmd_RXParamSetupAns"    -> parse_maccmd_RXParamSetupAns(cmd)
      [] parser = "parse_maccmd_RXParamSetupReq"    -> parse_maccmd_RXParamSetupReq(cmd)
      [] parser = "parse_maccmd_DevStatusAns"       -> parse_maccmd_DevStatusAns(cmd)
      [] parser = "parse_maccmd_DevStatusReq"       -> parse_maccmd_DevStatusReq(cmd)
      [] parser = "parse_maccmd_NewChannelAns"      -> parse_maccmd_NewChannelAns(cmd)
      [] parser = "parse_maccmd_NewChannelReq"      -> parse_maccmd_NewChannelReq(cmd)
      [] parser = "parse_maccmd_RXTimingSetupAns"   -> parse_maccmd_RXTimingSetupAns(cmd)
      [] parser = "parse_maccmd_RXTimingSetupReq"   -> parse_maccmd_RXTimingSetupReq(cmd)
      [] parser = "parse_maccmd_TxParamSetupAns"    -> parse_maccmd_TxParamSetupAns(cmd)
      [] parser = "parse_maccmd_TxParamSetupReq"    -> parse_maccmd_TxParamSetupReq(cmd)
      [] parser = "parse_maccmd_DlChannelAns"       -> parse_maccmd_DlChannelAns(cmd)
      [] parser = "parse_maccmd_DlChannelReq"       -> parse_maccmd_DlChannelReq(cmd)
      [] parser = "parse_maccmd_PingSlotInfoReq"    -> parse_maccmd_PingSlotInfoReq(cmd)
      [] parser = "parse_maccmd_PingSlotInfoAns"    -> parse_maccmd_PingSlotInfoAns(cmd)
      [] parser = "parse_maccmd_PingSlotChannelAns" -> parse_maccmd_PingSlotChannelAns(cmd)
      [] parser = "parse_maccmd_PingSlotChannelReq" -> parse_maccmd_PingSlotChannelReq(cmd)
      [] parser = "parse_maccmd_BeaconTimingReq"    -> parse_maccmd_BeaconTimingReq(cmd)
      [] parser = "parse_maccmd_BeaconTimingAns"    -> parse_maccmd_BeaconTimingAns(cmd)
      [] parser = "parse_maccmd_BeaconFreqAns"      -> parse_maccmd_BeaconFreqAns(cmd)
      [] parser = "parse_maccmd_BeaconFreqReq"      -> parse_maccmd_BeaconFreqReq(cmd)
      [] parser = "parse_maccmd_DeviceModeInd"      -> parse_maccmd_DeviceModeInd(cmd)
      [] parser = "parse_maccmd_DeviceModeConf"     -> parse_maccmd_DeviceModeConf(cmd)

\* The while loop of parse_mac_cmd from offset on, n_cmd commands done.
\* cmds lists the commands handed to a decoder, in order: where the CID
\* stood, the table entry used, the bytes handed over, what the decoder
\* raised and the value it decoded, for the decoders that tell it here.
\* The loop ends at the end of the bytes, at a CID the table does not hold
\* (warning, return) or at a decoder that raises.
RECURSIVE mac_cmd_loop(_, _, _, _, _)
mac_cmd_loop(g, mac_cmds, msg_dir, offset, n_cmd) ==
    IF offset >= Len(mac_cmds)
    THEN [exc |-> NoExc, lines |-> <<>>, warns |-> <<>>, cmds |-> <<>>,
          stopped |-> None]
    ELSE
        LET cid == mac_cmds[offset + 1]
        IN  IF cid \in DOMAIN mac_cmd_tab
            THEN
                LET t     == mac_cmd_tab[cid][msg_dir]
                    cmd   == PySlice(mac_cmds, offset + 1, 1 + (offset + 1) + t.size)
                    line  == print_vn(g, t.name, n_cmd + 1)
                    \* p is what t["parser"](cmd) gave
                    decoded(p) ==
                        LET entry == [offset |-> offset, cid |-> cid,
                                      n_cmd |-> n_cmd + 1, name |-> t.name,
                                      size |-> t.size, cmd |-> cmd, exc |-> p.exc,
                                      decoded |-> IF "decoded" \in DOMAIN p
                                                  THEN p.decoded ELSE None]
                            next(rest) ==
                                [exc |-> rest.exc, lines |-> line \o rest.lines,
                                 warns |-> rest.warns,
                                 cmds |-> <<entry>> \o rest.cmds,
                                 stopped |-> rest.stopped]
                        IN  IF p.exc # NoExc
                            THEN [exc |-> p.exc, lines |-> line, warns |-> <<>>,
                                  cmds |-> <<entry>>, stopped |-> None]
                            ELSE TheOnly({next(rest) : rest \in
                                     {mac_cmd_loop(g, mac_cmds, msg_dir,
                                                   offset + 1 + t.size, n_cmd + 1)}})
                IN  TheOnly({decoded(p) : p \in {CallParser(t.parser, cmd)}})
            ELSE [exc |-> NoExc,
                  lines |-> print_w(g, "looks a proprietary MAC command"),
                  warns |-> <<"looks a proprietary MAC command">>,
                  cmds |-> <<>>, stopped |-> Some(offset)]

\* parse_mac_cmd has no return statement with a value: when it does not
\* raise it returns None (ret). stopped is the offset of the unknown CID
\* it stopped at, if any.
parse_mac_cmd(g, mac_cmds, msg_dir, version) ==
    LET head == IF g.verbose
                THEN print_vt(g, "MAC Command (No. CMD CID DIR [MSG])")
                ELSE print_vt(g, "MAC Command (No. CMD CID DIR)")
        \* r is what the loop gave
        looped(r) ==
            [exc |-> r.exc, ret |-> None, lines |-> head \o r.lines,
             warns |-> r.warns, cmds |-> r.cmds, stopped |-> r.stopped]
    IN  TheOnly({looped(r) : r \in {mac_cmd_loop(g, mac_cmds, msg_dir, 0, 0)}})

----------------------------------------------------------------------------
(* lorawan_parser.py: the frame parsers. Each returns a record with         *)
(*   exc    the exception raised, or NoExc;                                 *)
(*   ret    the dict returned (meaningful when exc = NoExc);                *)
(*   lines  the lines printed, warns the messages passed to print_w;        *)
(* and, where MAC commands or the cipher layer are involved, the commands   *)
(* handed to decoders and the arguments of the cipher calls made.           *)

\* a faulty update that loses the new entries
DictUpdateLost(d, e) == d

\* d.update(e) of Python
DictUpdate(d, e) == e @@ d

\* a faulty test of the version: only "1.0.3" counts as later than 1.0
version_after_10_only_103(version) == version = "1.0.3"

\* version != "1.0": the only test the parsers make of the version
version_after_10(version) == version # "1.0"

parse_fhdr(g, payload, msg_dir, version, upper_fcnt) ==
    LET devaddr    == Reverse(PySlice(payload, 0, 4))
        fctrl_x    == PySlice(payload, 4, 5)
        fcnt_x     == Reverse(PySlice(payload, 5, 7))
        fctrl_b    == x2bin(fctrl_x)
        foptslen_b == PyFrom(fctrl_b, 4)
        foptslen_i == int2(foptslen_b)
        head       == print_v(g, "FHDR") \o print_v(g, "DevAddr") \o print_v(g, "FCtrl")
        flags ==
            IF msg_dir = MSGDIR_DOWN
            THEN print_v(g, "ADR")
                 \o (IF version_after_10(version) THEN print_v(g, "ADRACKReq")
                                        ELSE print_v(g, "RFU"))
                 \o print_v(g, "ACK") \o print_v(g, "FPending")
                 \o print_v(g, "FOptsLen")
            ELSE print_v(g, "ADR") \o print_v(g, "ADRACKReq") \o print_v(g, "ACK")
                 \o (IF version_after_10(version) THEN print_v(g, "RFU")
                                        ELSE print_v(g, "ClassB"))
                 \o print_v(g, "FOptsLen")
        fctrl_o ==
            IF msg_dir = MSGDIR_DOWN
            THEN ("fctrl_bits" :> fctrl_b) @@ ("adr" :> fctrl_b[1])
                 @@ ("ack" :> fctrl_b[3]) @@ ("fpending" :> fctrl_b[4])
                 @@ ("foptslen" :> foptslen_i)
            ELSE ("fctrl_bits" :> fctrl_b) @@ ("adr" :> fctrl_b[1])
                 @@ ("adrackreq" :> fctrl_b[2]) @@ ("ack" :> fctrl_b[3])
                 @@ ("classb" :> fctrl_b[4]) @@ ("foptslen" :> foptslen_i)
        fhdr_size  == 7 + foptslen_i
        mac_cmds   == PySlice(payload, 7, fhdr_size)
        ret(fopts_o) ==
            ("devaddr" :> devaddr) @@ ("fctrl" :> fctrl_o)
            @@ ("fcnt" :> upper_fcnt \o fcnt_x) @@ ("fopts" :> fopts_o)
            @@ ("fhdr_size" :> fhdr_size)
        \* m is what parse_mac_cmd(mac_cmds, msg_dir, version) gave
        with_fopts(m) ==
            [exc |-> m.exc, ret |-> ret(m.ret),
             lines |-> head \o flags \o print_v(g, "FCnt")
                       \o print_v(g, "FOpts") \o m.lines,
             warns |-> m.warns, cmds |-> m.cmds, mac_cmds |-> Some(mac_cmds)]
    IN  IF Len(foptslen_b) = 0
        THEN \* int("", 2)
             [exc |-> "ValueError", ret |-> None, lines |-> <<>>,
              warns |-> <<>>, cmds |-> <<>>, mac_cmds |-> None]
        ELSE IF foptslen_i = 0
        THEN [exc |-> NoExc, ret |-> ret(None),
              lines |-> head \o flags \o print_v(g, "FCnt"),
              warns |-> <<>>, cmds |-> <<>>, mac_cmds |-> None]
        ELSE TheOnly({with_fopts(m) : m \in
                 {parse_mac_cmd(g, mac_cmds, msg_dir, version)}})

\* The arguments of a call of lorawan_frmp_integrity or
\* lorawan_frmp_encryption; keyname tells which of the keys was passed.
CipherArgs(keyname, key, msg, devaddr, msg_dir, fcnt) ==
    [keyname |-> keyname, key |-> key, msg |-> msg, devaddr |-> devaddr,
     msg_dir |-> msg_dir, fcnt |-> fcnt]

\* a faulty choice of the key: the two session keys taken for one another
frmp_key_swapped(fport_i, nwkskey, appskey) ==
    IF fport_i = 0 THEN [keyname |-> "appskey", key |-> appskey]
    ELSE [keyname |-> "nwkskey", key |-> nwkskey]

\* The key parse_mac_payload decrypts the FRMPayload with: the NwkSKey in
\* the branch of FPort 0, the AppSKey in the branch of the other FPorts.
frmp_key(fport_i, nwkskey, appskey) ==
    IF fport_i = 0 THEN [keyname |-> "nwkskey", key |-> nwkskey]
    ELSE [keyname |-> "appskey", key |-> appskey]

\* the print_d lines before a call of the cipher layer in parse_mac_payload
debug_args(g, keytag) ==
    print_d(g, keytag) \o print_d(g, "Data") \o print_d(g, "Data length")
    \o print_d(g, "DevAddr") \o print_d(g, "Direction") \o print_d(g, "FCnt")

parse_mac_payload(g, phy_pdu, mhdr_o, nwkskey, appskey, version, upper_fcnt) ==
    LET mtype   == mhdr_o["mtype"]
        msg_dir == IF mtype \in {<<0,0,0>>, <<0,1,0>>, <<1,0,0>>} THEN MSGDIR_UP
                   ELSE IF mtype \in {<<0,0,1>>, <<0,1,1>>, <<1,0,1>>} THEN MSGDIR_DOWN
                   ELSE MSGDIR_UNKNOWN
        payload == PySlice(phy_pdu, 1, 0 - MIC_SIZE)
        \* all that follows the call of parse_fhdr, which gave fhdr
        after_fhdr(fhdr) ==
            LET
                fhdr_o  == fhdr.ret
                ret0    == ("devaddr" :> fhdr_o["devaddr"]) @@ ("fctrl" :> fhdr_o["fctrl"])
                           @@ ("fcnt" :> fhdr_o["fcnt"]) @@ ("fopts" :> fhdr_o["fopts"])
                           @@ ("fhdr_size" :> fhdr_o["fhdr_size"])
                \* MIC calculation
                mic_target == PySlice(phy_pdu, 0, 0 - MIC_SIZE)
                mic_args   == CipherArgs("nwkskey", nwkskey[1], mic_target,
                                         fhdr_o["devaddr"], msg_dir, fhdr_o["fcnt"])
                mic_exc == IF nwkskey = None THEN NoExc
                           ELSE frmp_B0_exc(fhdr_o["devaddr"], fhdr_o["fcnt"], mic_target)
                mic_raises == mic_exc # NoExc
                mic_derived == lorawan_frmp_integrity(nwkskey[1], mic_target,
                                   fhdr_o["devaddr"], msg_dir, fhdr_o["fcnt"])
                ret1    == IF nwkskey # None
                           THEN DictUpdate(ret0, "mic_derived" :> mic_derived.mic)
                           ELSE ret0
                lines1  == fhdr.lines
                           \o (IF nwkskey # None
                               THEN debug_args(g, "NwkSKey")
                                    \o (IF mic_raises THEN <<>>
                                        ELSE print_d(g, "CMAC") \o print_d(g, "MIC"))
                               ELSE print_w(g, "not checked MIC due to no NwkSKey specified."))
                warns1  == fhdr.warns
                           \o (IF nwkskey # None THEN <<>>
                               ELSE <<"not checked MIC due to no NwkSKey specified.">>)
                integ   == IF nwkskey # None THEN Some(mic_args) ELSE None
                \*
                offset    == fhdr_o["fhdr_size"]
                rest_size == Len(payload) - offset
                fport_i   == payload[offset + 1]
                ret2      == DictUpdate(ret1, "fport" :> fport_i)
                lines2    == lines1 \o print_v(g, "FPort")
                frm       == PyFrom(payload, offset + 1)
                both      == fhdr_o["fctrl"]["foptslen"] > 0
                \* FPort 0: MAC commands, decrypted with NwkSKey;
                \* other FPorts: decrypted with AppSKey
                fkey      == frmp_key(fport_i, nwkskey, appskey)
                dec0      == lorawan_frmp_encryption(fkey.key[1], frm, fhdr_o["devaddr"],
                                                     msg_dir, fhdr_o["fcnt"])
                decA      == lorawan_frmp_encryption(fkey.key[1], frm, fhdr_o["devaddr"],
                                                     msg_dir, fhdr_o["fcnt"])
                out(exc, r, lines, warns, frm_cmds, enc) ==
                    [exc |-> exc, ret |-> r, lines |-> lines, warns |-> warns,
                     msg_dir |-> msg_dir, cmds |-> fhdr.cmds, mac_cmds |-> fhdr.mac_cmds,
                     frm_cmds |-> frm_cmds, integrity |-> integ, encryption |-> enc]
            IN  IF fhdr.exc # NoExc
                THEN [exc |-> fhdr.exc, ret |-> None, lines |-> fhdr.lines,
                      warns |-> fhdr.warns, msg_dir |-> msg_dir, cmds |-> fhdr.cmds,
                      mac_cmds |-> fhdr.mac_cmds, frm_cmds |-> <<>>,
                      integrity |-> None, encryption |-> None]
                ELSE IF mic_raises
                THEN out(mic_exc, None, lines1, warns1, <<>>, None)
                ELSE IF rest_size < 0
                THEN out(NoExc, ret1, lines1 \o print_w(g, "invalid fhdr_size"),
                         warns1 \o <<"invalid fhdr_size">>, <<>>, None)
                ELSE IF rest_size = 0
                THEN \* case 3
                     out(NoExc, ret1, lines1, warns1, <<>>, None)
                ELSE IF rest_size - 1 <= 0
                THEN out(NoExc, ret2,
                         lines2 \o print_w(g, "payload size is too short."),
                         warns1 \o <<"payload size is too short.">>, <<>>, None)
                ELSE IF fport_i = 0
                THEN \* case 2
                    LET l3 == lines2 \o print_vt(g, "FRMPayload(MAC Command)")
                              \o (IF both
                                  THEN print_w(g, "MAC Commands exist in both FOpts and FRMPayload.")
                                  ELSE <<>>)
                        w3 == warns1
                              \o (IF both
                                  THEN <<"MAC Commands exist in both FOpts and FRMPayload.">>
                                  ELSE <<>>)
                        \* frm_o is what parse_mac_cmd(dec0, msg_dir, version) gave
                        with_frm(frm_o) ==
                            out(frm_o.exc,
                                DictUpdate(DictUpdate(ret2, "payload" :> dec0),
                                           "frm_mac" :> frm_o.ret),
                                l3 \o debug_args(g, "NwkSKey") \o print_d(g, "Decrypted")
                                   \o print_v(g, "MAC Commands") \o frm_o.lines,
                                w3 \o frm_o.warns, frm_o.cmds,
                                Some(CipherArgs(fkey.keyname, fkey.key[1], frm,
                                                fhdr_o["devaddr"], msg_dir, fhdr_o["fcnt"])))
                    IN  IF fkey.key # None
                        THEN TheOnly({with_frm(frm_o) : frm_o \in
                                 {parse_mac_cmd(g, dec0, msg_dir, version)}})
                        ELSE out(NoExc, ret2,
                                 l3 \o print_w(g, "not decrypted MAC Command due to no NwkSKey specified."),
                                 w3 \o <<"not decrypted MAC Command due to no NwkSKey specified.">>,
                                 <<>>, None)
                ELSE \* case 1,4
                    LET l3 == lines2
                              \o (IF fport_i = 224
                                  THEN print_vt(g, "FRMPayload (MAC Command Test)")
                                  ELSE print_vt(g, "FRMPayload (Application Data)"))
                    IN  IF fkey.key # None
                        THEN out(NoExc, DictUpdate(ret2, "payload" :> decA),
                                 l3 \o debug_args(g, "AppSKey") \o print_d(g, "Decrypted")
                                    \o (IF fport_i = 224 THEN print_v(g, "TestData")
                                                         ELSE print_v(g, "AppData")),
                                 warns1, <<>>,
                                 Some(CipherArgs(fkey.keyname, fkey.key[1], frm,
                                                 fhdr_o["devaddr"], msg_dir, fhdr_o["fcnt"])))
                        ELSE out(NoExc, ret2,
                                 l3 \o print_w(g, "not decrypt Application Data due to no AppSKey specified."),
                                 warns1 \o <<"not decrypt Application Data due to no AppSKey specified.">>,
                                 <<>>, None)

    IN  IF msg_dir = MSGDIR_UNKNOWN
        THEN [exc |-> NoExc, ret |-> ("msg_dir" :> MSGDIR_UNKNOWN),
              lines |-> print_w(g, "unknown msg direction"),
              warns |-> <<"unknown msg direction">>,
              msg_dir |-> msg_dir, cmds |-> <<>>, mac_cmds |-> None,
              frm_cmds |-> <<>>, integrity |-> None, encryption |-> None]
        \* parse_fhdr(payload, msg_dir, version): upper_fcnt is not passed
        \* on and takes its default b"\x00\x00"
        ELSE TheOnly({after_fhdr(fhdr) : fhdr \in
                 {parse_fhdr(g, payload, msg_dir, version, <<0, 0>>)}})

parse_netid(g, netid_x) ==
    LET netid_b == x2bin(netid_x)
        nwkid_b == PySlice(netid_b, 0, 7)
    IN  [exc |-> NoExc,
         ret |-> ("netid" :> netid_x) @@ ("nwkid" :> nwkid_b)
                 @@ ("residue" :> PyFrom(netid_b, 7)),
         lines |-> print_v(g, "NetID") \o print_v(g, "NwkID")]

\* dlsets is an int: the byte DLSettings
parse_dlsettings(g, dlsets) ==
    LET dlsets_b       == x2bin_int(dlsets)
        dlsets_rx1do_i == int2(PySlice(dlsets_b, 1, 4))
        dlsets_rx2dr_i == int2(PyFrom(dlsets_b, 4))
    IN  [exc |-> NoExc,
         ret |-> ("dlsettings" :> dlsets) @@ ("rx1droffset" :> dlsets_rx1do_i)
                 @@ ("rx2datarate" :> dlsets_rx2dr_i),
         lines |-> print_v(g, "DLSettings") \o print_v(g, "RFU")
                   \o print_v(g, "RX1DROffset") \o print_v(g, "RX2DataRate")]

parse_cflist(g, cflist_x, region) ==
    LET nb_start == IF region = "AS923" THEN 2
                    ELSE IF region = "EU868" THEN 3
                    ELSE 0
        cflist   == [i \in 1..5 |-> x2int(PySlice(cflist_x, (i - 1) * 3, (i - 1) * 3 + 3))]
        cflines  == print_v(g, "CFList")
                    \o print_vn(g, "CF", nb_start) \o print_vn(g, "CF", nb_start + 1)
                    \o print_vn(g, "CF", nb_start + 2) \o print_vn(g, "CF", nb_start + 3)
                    \o print_vn(g, "CF", nb_start + 4)
    IN  IF region \notin {"AS923", "EU868"}
        THEN [exc |-> "NotImplementedError", ret |-> None, lines |-> <<>>]
        ELSE IF Len(cflist_x) = 0
        THEN \* cflist_x[-1]
             [exc |-> "IndexError", ret |-> None, lines |-> cflines]
        ELSE [exc |-> NoExc,
              ret |-> ("cflist" :> cflist) @@ ("cflisttype" :> cflist_x[Len(cflist_x)]),
              lines |-> cflines \o print_v(g, "CFListType")]

parse_join_accept(g, phy_pdu, appkey, version, region) ==
    LET lenwarn == Len(phy_pdu) \notin {17, 33}
        lenmsg  == "length of PHY PDU of Join Accept must be 17 or 33"
        nokey   == "not decrypt Join Accept due to no AppKey specified."
        w0      == IF lenwarn THEN <<lenmsg>> ELSE <<>>
        l0      == IF lenwarn THEN print_w(g, lenmsg) ELSE <<>>
        \* all that follows the decryption, which gave payload
        decrypted(payload) ==
            LET
                l1      == l0 \o print_d(g, "Appkey") \o print_d(g, "Data")
                           \o print_d(g, "Data length") \o print_d(g, "Decrypted")
                appnonce_x   == Reverse(PySlice(payload, 0, 3))
                netid_x      == Reverse(PySlice(payload, 3, 6))
                devaddr      == Reverse(PySlice(payload, 6, 10))
                dlsettings_x == PySlice(payload, 10, 11)
                rxdelay_x    == PySlice(payload, 11, 12)
                mic_explicit == Reverse(PyFrom(payload, 0 - MIC_SIZE))
                netid_o      == parse_netid(g, netid_x)
                l2      == l1 \o print_v(g, "AppNonce") \o netid_o.lines \o print_v(g, "DevAddr")
                dlsets_o == parse_dlsettings(g, dlsettings_x[1])
                l3      == l2 \o (IF version_after_10(version) THEN dlsets_o.lines ELSE print_v(g, "RFU"))
                rxdelay_i == IF rxdelay_x[1] = 0 THEN 1 ELSE rxdelay_x[1]
                l4      == l3 \o print_v(g, "RxDelay")
                ret0    == ("appnonce" :> appnonce_x) @@ ("netid" :> netid_o.ret["netid"])
                           @@ ("nwkid" :> netid_o.ret["nwkid"]) @@ ("devaddr" :> devaddr)
                           @@ ("dlsettings" :> dlsets_o.ret["dlsettings"])
                           @@ ("rx1droffset" :> dlsets_o.ret["rx1droffset"])
                           @@ ("rx2datarate" :> dlsets_o.ret["rx2datarate"])
                           @@ ("rxdelay" :> rxdelay_i) @@ ("mic_explicit" :> mic_explicit)
                cflist_o == parse_cflist(g, PySlice(payload, 12, 28), region)
                ret1    == IF Len(phy_pdu) = 33 THEN DictUpdate(ret0, "cflist" :> cflist_o.ret)
                           ELSE ret0
                l5      == l4 \o (IF Len(phy_pdu) = 33 THEN cflist_o.lines ELSE <<>>)
                buf     == PySlice(phy_pdu, 0, 1) \o PySlice(payload, 0, 0 - MIC_SIZE)
                mic_o   == lorawan_aes128_cmac(appkey[1], buf)
            IN  IF version_after_10(version) /\ Len(dlsettings_x) = 0
                THEN \* dlsettings_x[0]
                     [exc |-> "IndexError", ret |-> None, lines |-> l2, warns |-> w0]
                ELSE IF Len(rxdelay_x) = 0
                THEN \* rxdelay_x[0]
                     [exc |-> "IndexError", ret |-> None, lines |-> l3, warns |-> w0]
                ELSE IF ~version_after_10(version)
                THEN \* ret_o reads dlsets_o, which only the other branch assigns
                     [exc |-> "UnboundLocalError", ret |-> None, lines |-> l4, warns |-> w0]
                ELSE IF Len(phy_pdu) = 33 /\ cflist_o.exc # NoExc
                THEN [exc |-> cflist_o.exc, ret |-> None, lines |-> l5, warns |-> w0]
                ELSE [exc |-> NoExc, ret |-> DictUpdate(ret1, "mic_derived" :> mic_o.mic),
                      lines |-> l5 \o print_d(g, "Appkey") \o print_d(g, "Msg")
                                \o print_d(g, "CMAC"),
                      warns |-> w0]
    IN  IF appkey = None
        THEN [exc |-> NoExc, ret |-> <<>>, lines |-> l0 \o print_w(g, nokey),
              warns |-> w0 \o <<nokey>>]
        ELSE TheOnly({decrypted(payload) : payload \in
                 {lorawan_aes128_encrypt(appkey[1], PyFrom(phy_pdu, 1))}})

parse_join_request(g, phy_pdu, appkey) ==
    LET lenwarn == Len(phy_pdu) # 23
        lenmsg  == "length of PHY PDU of Join Request must be 23"
        nokey   == "not calculated MIC due to no AppKey specified."
        payload == PyFrom(phy_pdu, 1)
        ret0    == ("appeui" :> Reverse(PySlice(payload, 0, 8)))
                   @@ ("deveui" :> Reverse(PySlice(payload, 8, 16)))
                   @@ ("devnonce" :> Reverse(PySlice(payload, 16, 18)))
        mic_o   == lorawan_aes128_cmac(appkey[1], PySlice(phy_pdu, 0, 0 - MIC_SIZE))
        l0      == (IF lenwarn THEN print_w(g, lenmsg) ELSE <<>>)
                   \o print_v(g, "AppEUI") \o print_v(g, "DevEUI")
                   \o print_v(g, "DevNonce")
        w0      == IF lenwarn THEN <<lenmsg>> ELSE <<>>
    IN  IF appkey # None
        THEN [exc |-> NoExc, ret |-> DictUpdate(ret0, "mic_derived" :> mic_o.mic),
              lines |-> l0 \o print_d(g, "Appkey") \o print_d(g, "Msg")
                        \o print_d(g, "CMAC"),
              warns |-> w0]
        ELSE [exc |-> NoExc, ret |-> ret0, lines |-> l0 \o print_w(g, nokey),
              warns |-> w0 \o <<nokey>>]

get_mtype_cmd(mtype) ==
    CASE mtype = <<0,0,0>> -> "Join Request"
      [] mtype = <<0,0,1>> -> "Join Accept"
      [] mtype = <<0,1,0>> -> "Unconfirmed Data Up"
      [] mtype = <<0,1,1>> -> "Unconfirmed Data Down"
      [] mtype = <<1,0,0>> -> "Confirmed Data Up"
      [] mtype = <<1,0,1>> -> "Confirmed Data Down"
      [] mtype = <<1,1,0>> -> "RFU"
      [] mtype = <<1,1,1>> -> "Proprietary"

\* mhdr is an int: the first byte of the PDU
parse_mhdr(g, mhdr) ==
    LET mhdr_b  == x2bin_int(mhdr)
        mtype_b == PySlice(mhdr_b, 0, 3)
    IN  [exc |-> NoExc,
         ret |-> ("mhdr_bits" :> mhdr_b) @@ ("mtype" :> mtype_b)
                 @@ ("mtype_cmd" :> get_mtype_cmd(mtype_b))
                 @@ ("major" :> PyFrom(mhdr_b, 6)),
         lines |-> print_vt(g, "MHDR") \o print_v(g, "MType") \o print_v(g, "RFU")
                   \o print_v(g, "Major")]

\* a faulty mic_x: the last four bytes in wire order
mic_x_wire_order(phy_pdu) == PyFrom(phy_pdu, 0 - MIC_SIZE)

\* mic_x = phy_pdu[-__MIC_SIZE:][::-1], the MIC as it stands at the end of
\* the PDU, reversed
mic_x_reversed(phy_pdu) == Reverse(PyFrom(phy_pdu, 0 - MIC_SIZE))

\* a faulty mic_x of a Join Accept: an empty MIC where there is none
mic_x_join_accept_empty(msg_o) ==
    Some(IF "mic_explicit" \in DOMAIN msg_o THEN msg_o["mic_explicit"] ELSE <<>>)

\* mic_x of a Join Accept: the MIC of the decrypted body, or None when the
\* body was not decrypted
mic_x_join_accept(msg_o) ==
    IF "mic_explicit" \in DOMAIN msg_o THEN Some(msg_o["mic_explicit"]) ELSE None

\* parse_phy_pdu from the banner on, that is, once the invocation has
\* written the globals. a holds the arguments (see parse_phy_pdu); opt_g and
\* po_g are the globals opt and __parse_only as the invocation reads them:
\* the banner looks at the argument parse_only, all other printing at the
\* globals.
parse_phy_pdu_rest(a, opt_g, po_g) ==
    LET phy_pdu == a.phy_pdu
        g       == [parse_only |-> po_g, verbose |-> opt_g.verbose,
                    debug_level |-> opt_g.debug_level]
        l0      == (IF a.parse_only = FALSE
                    THEN << <<"print", "=== PHYPayload ===">> >> ELSE <<>>)
                   \o (IF opt_g.verbose THEN print_v(g, "PDU") ELSE <<>>)
        mhdr    == parse_mhdr(g, phy_pdu[1])
        mhdr_o  == mhdr.ret
        mtype   == mhdr_o["mtype"]
        jr      == parse_join_request(g, phy_pdu, a.appkey)
        \* parse_join_accept(phy_pdu, appkey=appkey, version=version):
        \* region is not passed and takes its default "AS923"
        ja      == parse_join_accept(g, phy_pdu, a.appkey, a.version, "AS923")
        mp      == parse_mac_payload(g, phy_pdu, mhdr_o, a.nwkskey, a.appskey,
                                     a.version, a.upper_fcnt)
        kind    == IF mtype = <<0,0,0>> THEN "JoinReq"
                   ELSE IF mtype = <<0,0,1>> THEN "JoinAccept"
                   ELSE IF mtype \in {<<0,1,1>>, <<1,0,1>>, <<0,1,0>>, <<1,0,0>>}
                        THEN "MACPayload"
                   ELSE "Proprietary"
        \* all that follows the parse of the body, which gave sub
        parsed(sub) ==
            LET
                msg_o   == sub.ret
                mic_x   == IF kind = "JoinAccept"
                           THEN mic_x_join_accept(msg_o)
                           ELSE Some(mic_x_reversed(phy_pdu))
                ret0    == ("mhdr" :> mhdr_o) @@ ("body" :> msg_o)
                ret1    == IF mic_x # None THEN DictUpdate(ret0, "mic" :> mic_x[1]) ELSE ret0
                l1      == l0 \o mhdr.lines \o print_vt(g, kind) \o sub.lines
                l2      == l1 \o print_vt(g, "MIC")
                           \o (IF mic_x # None THEN print_v(g, "MIC in frame") ELSE <<>>)
                           \o (IF "mic_derived" \in DOMAIN msg_o
                               THEN print_v(g, "MIC Derived ") ELSE <<>>)
                isdata  == kind = "MACPayload"
                out(exc, r, lines) ==
                    [exc |-> exc, ret |-> r, lines |-> lines, warns |-> sub.warns,
                     kind |-> kind,
                     cmds |-> IF isdata THEN sub.cmds ELSE <<>>,
                     mac_cmds |-> IF isdata THEN sub.mac_cmds ELSE None,
                     frm_cmds |-> IF isdata THEN sub.frm_cmds ELSE <<>>,
                     integrity |-> IF isdata THEN sub.integrity ELSE None,
                     encryption |-> IF isdata THEN sub.encryption ELSE None]
            IN  IF sub.exc # NoExc
                THEN out(sub.exc, None, l1)
                ELSE out(NoExc, ret1, l2)
    IN  TheOnly({parsed(sub) : sub \in
            {CASE kind = "JoinReq"     -> jr
               [] kind = "JoinAccept"  -> ja
               [] kind = "MACPayload"  -> mp
               [] kind = "Proprietary" ->
                      [exc |-> NoExc, ret |-> ("msg" :> "proprietary"),
                       lines |-> <<>>, warns |-> <<>>]}})

\* what parse_phy_pdu gives when it raises on the empty PDU
RaisedOnEmpty ==
    [exc |-> "ValueError", ret |-> None, lines |-> <<>>, warns |-> <<>>,
     kind |-> "", cmds |-> <<>>, mac_cmds |-> None, frm_cmds |-> <<>>,
     integrity |-> None, encryption |-> None]

\* The whole of parse_phy_pdu. a holds the arguments: phy_pdu, nwkskey,
\* appskey, appkey (each None or <<key>>), version, upper_fcnt, parse_only
\* and option (None or <<record>>); o is the global opt at the call.
\* The record returned also tells the globals as the call leaves them
\* (opt_after, parse_only_after, given the value po of __parse_only before).
parse_phy_pdu(a, o, po) ==
    LET opt1 == IF a.option # None THEN a.option[1] ELSE o
    IN  IF Len(a.phy_pdu) = 0
        THEN \* raised before the globals are written
             [opt_after |-> o, parse_only_after |-> po] @@ RaisedOnEmpty
        ELSE [opt_after |-> opt1, parse_only_after |-> a.parse_only]
             @@ parse_phy_pdu_rest(a, opt1, a.parse_only)

----------------------------------------------------------------------------
(* The callers' inputs *)

\* at most this many keyword arguments of parse_phy_pdu differ from their defaults
MaxNonDefault == 2
\* a stub PDU is the MHDR followed by at most this many bytes
MaxStubLen == 6
\* at most this many MAC commands in the FOpts of a data frame
MaxFOptsCmds == 2
\* at most this many MAC commands in a byte string given to parse_mac_cmd
MaxMacCmds == 2
\* the longest message given to the cipher layer
MaxMsgLen == 33

\* n bytes of a fixed pattern
Filler(n) == [i \in 1..n |-> (37 * i + 11) % 256]

SampleNwkSKey == [i \in 1..16 |-> (17 * i) % 256]
SampleAppSKey == [i \in 1..16 |-> (29 * i + 3) % 256]
SampleAppKey == Zeros(16)

Versions == {"1.0", "1.0.3", "1.1"}

\* the option records callers pass: verbosity, debug level and region
\* (option is the only argument of parse_phy_pdu that can carry a region)
Options ==
    {None,
     Some([verbose |-> TRUE, debug_level |-> 0, region |-> "AS923"]),
     Some([verbose |-> TRUE, debug_level |-> 1, region |-> "EU868"]),
     Some([verbose |-> FALSE, debug_level |-> 0, region |-> "US920"])}

\* the defaults of the keyword arguments of parse_phy_pdu
DefaultArgs ==
    [nwkskey |-> None, appskey |-> None, appkey |-> None, version |-> "1.0.3",
     upper_fcnt |-> <<0, 0>>, parse_only |-> FALSE, option |-> None]

NonDefault(c) == Cardinality({k \in DOMAIN DefaultArgs : c[k] # DefaultArgs[k]})

KeywordArgs ==
    {c \in [nwkskey : {None, Some(SampleNwkSKey)},
            appskey : {None, Some(SampleAppSKey)},
            appkey : {None, Some(SampleAppKey)},
            version : Versions,
            upper_fcnt : {<<0, 0>>, <<0, 1>>},
            parse_only : BOOLEAN,
            option : Options] : NonDefault(c) <= MaxNonDefault}

\* MHDR of the given MType, Major 0
MHDR(mtype) == 32 * mtype

StubPdus == {<<MHDR(m)>> \o Filler(n) : m \in 0..7, n \in 0..MaxStubLen}

\* 00 0000000000000000 0100009581AB5000 17E3 9FADBC6E
JoinRequestPdu ==
    <<0, 0, 0, 0, 0, 0, 0, 0, 0, 1, 0, 0, 149, 129, 171, 80, 0, 23, 227,
      159, 173, 188, 110>>

\* 20 ED8D1A 7B11EA CDD3F52D FC 39 0FFF77E2, and a 33-byte Join Accept
JoinAcceptPdus ==
    {<<32, 237, 141, 26, 123, 17, 234, 205, 211, 245, 45, 252, 57, 15, 255, 119, 226>>,
     <<32>> \o Filler(32)}

\* single MAC commands as they stand on the wire, by direction; 128 is a
\* CID the table does not hold
CmdSamples(msg_dir) ==
    IF msg_dir = MSGDIR_UP
    THEN {<<6, 100, 63>>, <<128>>}
    ELSE {<<6>>, <<5, 0, 1, 2, 3>>, <<128>>}

\* the concatenations of at most n commands
RECURSIVE CmdSeqs(_, _)
CmdSeqs(units, n) ==
    IF n = 0 THEN {<<>>}
    ELSE LET shorter == CmdSeqs(units, n - 1)
         IN  shorter \cup {s \o u : s \in shorter, u \in units}

SampleDevAddrWire == <<193, 210, 82, 1>>
SampleFCntWire == <<5, 0>>

MTypeDir(m) == IF m \in {2, 4} THEN MSGDIR_UP ELSE MSGDIR_DOWN

\* what follows the FHDR of a data frame: nothing, or an FPort and an
\* FRMPayload as the sender encrypts it (FCnt 5, upper 16 bits 0)
Tails(msg_dir) ==
    LET devaddr == Reverse(SampleDevAddrWire)
        fcnt    == <<0, 0>> \o Reverse(SampleFCntWire)
    IN  {<<>>,
         <<0>> \o lorawan_frmp_encryption(SampleNwkSKey,
                      IF msg_dir = MSGDIR_UP THEN <<2, 128, 2>> ELSE <<6, 128, 6>>,
                      devaddr, msg_dir, fcnt),
         <<1>> \o lorawan_frmp_encryption(SampleAppSKey, <<104, 105, 33>>,
                      devaddr, msg_dir, fcnt)}

DataPdus ==
    {<<MHDR(m)>> \o SampleDevAddrWire \o <<160 + Len(fo)>> \o SampleFCntWire
         \o fo \o tail \o Filler(MIC_SIZE) :
        <<m, fo, tail>> \in
            UNION {{m} \X CmdSeqs(CmdSamples(MTypeDir(m)), MaxFOptsCmds)
                       \X Tails(MTypeDir(m)) : m \in {2, 3, 4, 5}}}

\* data frames cut short: FCtrl announces 3 bytes of FOpts, the frame holds
\* none or two of them (LinkCheckReq twice) before the MIC
TruncatedPdus ==
    {<<MHDR(m)>> \o SampleDevAddrWire \o <<163>> \o SampleFCntWire
         \o fo \o Filler(MIC_SIZE) : m \in {2, 4}, fo \in {<<>>, <<2, 2>>}}

PhyPdus ==
    {<<>>} \cup StubPdus \cup {JoinRequestPdu} \cup JoinAcceptPdus \cup DataPdus
    \cup TruncatedPdus

----------------------------------------------------------------------------
Init ==
    /\ opt = [debug_level |-> 0, verbose |-> FALSE]
    /\ __parse_only = FALSE
    /\ pc = "idle"
    /\ call = None
    /\ result = None
    /\ hist = None

\* A caller invokes parse_phy_pdu(phy_pdu, **kw); the call runs to its end.
ParsePhyPdu ==
    /\ pc = "idle"
    /\ \E phy_pdu \in PhyPdus, kw \in KeywordArgs :
        \E r \in {parse_phy_pdu(("phy_pdu" :> phy_pdu) @@ kw, opt, __parse_only)} :
            /\ call' = ("fn" :> "parse_phy_pdu") @@ ("phy_pdu" :> phy_pdu) @@ kw
            /\ result' = r
            /\ opt' = r.opt_after
            /\ __parse_only' = r.parse_only_after
    /\ pc' = "done"
    /\ hist' = hist

Next == ParsePhyPdu

Spec == Init /\ [][Next]_vars

----------------------------------------------------------------------------
(* parse_mac_cmd called on its own *)

FillBytes == {0, 49}
UnknownCids == {0, 128}

\* the commands of the table as they stand on the wire, every payload byte
\* being b, and unknown CIDs
MacUnits(msg_dir, b) ==
    {<<cid>> \o [i \in 1..mac_cmd_tab[cid][msg_dir].size |-> b] :
        cid \in DOMAIN mac_cmd_tab}
    \cup {<<u>> : u \in UnknownCids}

\* sequences of at most MaxMacCmds commands, whole or with the last byte
\* cut off
MacInputs(msg_dir) ==
    UNION {{s, PySlice(s, 0, Len(s) - 1)} :
              s \in UNION {CmdSeqs(MacUnits(msg_dir, b), MaxMacCmds) :
                               b \in FillBytes}}

ParseMacCmd ==
    /\ pc = "idle"
    /\ \E msg_dir \in {MSGDIR_UP, MSGDIR_DOWN} :
       \E mac_cmds \in MacInputs(msg_dir) :
        LET g == [parse_only |-> __parse_only, verbose |-> opt.verbose,
                  debug_level |-> opt.debug_level]
        IN  /\ call' = [fn |-> "parse_mac_cmd", mac_cmds |-> mac_cmds,
                        msg_dir |-> msg_dir, version |-> DefaultArgs.version]
            /\ result' = parse_mac_cmd(g, mac_cmds, msg_dir, DefaultArgs.version)
    /\ pc' = "done"
    /\ UNCHANGED <<opt, __parse_only, hist>>

NextMacCmd == ParseMacCmd

SpecMacCmd == Init /\ [][NextMacCmd]_vars

----------------------------------------------------------------------------
(* The cipher layer called on its own *)

CipherKeys == {SampleNwkSKey, SampleAppSKey}
CipherMsgs == {Filler(n) : n \in 0..MaxMsgLen} \cup {Zeros(n) : n \in 0..MaxMsgLen}

\* lorawan_frmp_encryption(key, msg, devaddr, msg_dir, fcnt)
FrmpEncryption ==
    /\ pc = "idle"
    /\ \E key \in CipherKeys, msg \in CipherMsgs, msg_dir \in {UP_LINK, DOWN_LINK},
          fcnt \in {<<0, 0, 0, 5>>, <<0, 1, 255, 255>>} :
        /\ call' = [fn |-> "lorawan_frmp_encryption", key |-> key, msg |-> msg,
                    devaddr |-> Reverse(SampleDevAddrWire), msg_dir |-> msg_dir,
                    fcnt |-> fcnt]
        /\ result' = [exc |-> NoExc,
                      ret |-> lorawan_frmp_encryption(key, msg,
                                  Reverse(SampleDevAddrWire), msg_dir, fcnt)]
    /\ pc' = "done"
    /\ UNCHANGED <<opt, __parse_only, hist>>

\* the caller hands the buffer it got back to lorawan_frmp_encryption, with
\* the same key, devaddr, msg_dir and fcnt
FrmpEncryptionAgain ==
    /\ pc = "done"
    /\ call.fn = "lorawan_frmp_encryption"
    /\ hist = None
    /\ hist' = Some([call |-> call, result |-> result])
    /\ call' = [call EXCEPT !.msg = result.ret]
    /\ result' = [exc |-> NoExc,
                  ret |-> lorawan_frmp_encryption(call.key, result.ret,
                              call.devaddr, call.msg_dir, call.fcnt)]
    /\ UNCHANGED <<opt, __parse_only, pc>>

\* aes128_encrypt(key, plain_data)
Aes128Encrypt ==
    /\ pc = "idle"
    /\ \E key \in CipherKeys, plain_data \in CipherMsgs :
        /\ call' = [fn |-> "aes128_encrypt", key |-> key, data |-> plain_data]
        /\ result' = [exc |-> NoExc, ret |-> aes128_encrypt(key, plain_data)]
    /\ pc' = "done"
    /\ UNCHANGED <<opt, __parse_only, hist>>

\* aes128_decrypt(key, enc_data); the library refuses data that is not a
\* multiple of the block size
Aes128Decrypt ==
    /\ pc = "idle"
    /\ \E key \in CipherKeys, enc_data \in CipherMsgs :
        /\ call' = [fn |-> "aes128_decrypt", key |-> key, data |-> enc_data]
        /\ result' = IF Len(enc_data) % BlockSize # 0
                     THEN [exc |-> "ValueError", ret |-> None]
                     ELSE [exc |-> NoExc, ret |-> aes128_decrypt(key, enc_data)]
    /\ pc' = "done"
    /\ UNCHANGED <<opt, __parse_only, hist>>

\* the caller hands what aes128_decrypt returned to aes128_encrypt, with
\* the same key
Aes128EncryptDecrypted ==
    /\ pc = "done"
    /\ call.fn = "aes128_decrypt"
    /\ result.exc = NoExc
    /\ hist = None
    /\ hist' = Some([call |-> call, result |-> result])
    /\ call' = [fn |-> "aes128_encrypt", key |-> call.key, data |-> result.ret]
    /\ result' = [exc |-> NoExc, ret |-> aes128_encrypt(call.key, result.ret)]
    /\ UNCHANGED <<opt, __parse_only, pc>>

\* the values a caller takes from a parsed Join Request and Join Accept
\* (host order); a Join Request cut short gives a DevNonce of one byte
SampleDevNonces == {<<227, 23>>, <<0, 1>>, <<23>>}
SampleAppNonces == {<<26, 141, 237>>, <<0, 0, 1>>}
SampleNetIDs == {<<234, 17, 123>>, <<0, 0, 19>>}

\* lorawan_get_keys(appkey, devnonce=..., appnonce=..., netid=...)
GetKeys ==
    /\ pc = "idle"
    /\ \E appkey \in CipherKeys \cup {SampleAppKey}, devnonce \in SampleDevNonces,
          appnonce \in SampleAppNonces, netid \in SampleNetIDs :
        /\ call' = [fn |-> "lorawan_get_keys", appkey |-> appkey,
                    devnonce |-> devnonce, appnonce |-> appnonce, netid |-> netid]
        /\ result' = [exc |-> NoExc,
                      ret |-> lorawan_get_keys(appkey, devnonce, appnonce, netid)]
    /\ pc' = "done"
    /\ UNCHANGED <<opt, __parse_only, hist>>

\* lorawan_frmp_integrity(key, msg, devaddr, msg_dir, fcnt), also on a
\* message of 255 bytes and on one of 256
FrmpIntegrity ==
    /\ pc = "idle"
    /\ \E key \in CipherKeys, msg \in CipherMsgs \cup {Filler(255), Filler(256)},
          msg_dir \in {UP_LINK, DOWN_LINK},
          fcnt \in {<<0, 0, 0, 5>>, <<0, 1, 255, 255>>} :
        /\ call' = [fn |-> "lorawan_frmp_integrity", key |-> key, msg |-> msg,
                    devaddr |-> Reverse(SampleDevAddrWire), msg_dir |-> msg_dir,
                    fcnt |-> fcnt]
        /\ result' =
              LET exc == frmp_B0_exc(Reverse(SampleDevAddrWire), fcnt, msg)
              IN  [exc |-> exc,
                   ret |-> IF exc # NoExc THEN None
                           ELSE Some(lorawan_frmp_integrity(key, msg,
                                         Reverse(SampleDevAddrWire), msg_dir, fcnt))]
    /\ pc' = "done"
    /\ UNCHANGED <<opt, __parse_only, hist>>

NextCipher ==
    \/ GetKeys
    \/ FrmpIntegrity
    \/ FrmpEncryption
    \/ FrmpEncryptionAgain
    \/ Aes128Encrypt
    \/ Aes128Decrypt
    \/ Aes128EncryptDecrypted

SpecCipher == Init /\ [][NextCipher]_vars

----------------------------------------------------------------------------
(* Properties of parse_phy_pdu, checked under Spec *)

ParsedPhyPdu == pc = "done" /\ call.fn = "parse_phy_pdu"

\* C1, as stated: for every PDU of at least 5 bytes, of every MType and
\* with any keys, the MIC surfaced as the MIC in the frame is the last four
\* bytes of the PDU, reversed.
C1_MicInFrameIsWireMic ==
    (ParsedPhyPdu /\ Len(call.phy_pdu) >= 5 /\ result.exc = NoExc
        /\ "mic" \in DOMAIN result.ret)
    => result.ret["mic"] = Reverse(PyFrom(call.phy_pdu, 0 - MIC_SIZE))

\* C1, amended: whenever parse_phy_pdu returns the tree of a PDU of at least
\* 5 bytes, the MIC in the frame is the last four bytes of the PDU reversed
\* for every MType but Join Accept; for a Join Accept it is the last four
\* bytes of aes128_encrypt(AppKey, phy_pdu[1:]) reversed when the AppKey is
\* given, and no MIC in the frame is surfaced when it is not.
C1_MicInFrame ==
    (ParsedPhyPdu /\ Len(call.phy_pdu) >= 5 /\ result.exc = NoExc)
    => IF result.kind # "JoinAccept"
       THEN /\ "mic" \in DOMAIN result.ret
            /\ result.ret["mic"] = Reverse(PyFrom(call.phy_pdu, 0 - MIC_SIZE))
       ELSE IF call.appkey = None
       THEN "mic" \notin DOMAIN result.ret
       ELSE /\ "mic" \in DOMAIN result.ret
            /\ result.ret["mic"] =
                   Reverse(PyFrom(aes128_encrypt(call.appkey[1], PyFrom(call.phy_pdu, 1)),
                                  0 - MIC_SIZE))

\* a data frame parsed with both session keys, its MIC in the frame surfaced
C1_Witness ==
    /\ ParsedPhyPdu
    /\ result.exc = NoExc
    /\ result.kind = "MACPayload"
    /\ Len(call.phy_pdu) >= 5
    /\ call.nwkskey # None
    /\ "mic_derived" \in DOMAIN result.ret["body"]
    /\ "mic" \in DOMAIN result.ret

\* C2: parse_phy_pdu raises only when the PDU is empty; for every PDU that
\* is not empty it returns a tree without raising.
C2_RaisesOnlyWhenEmpty ==
    ParsedPhyPdu => (result.exc # NoExc <=> Len(call.phy_pdu) = 0)

\* C3: for every data frame the fcnt of the tree, and the fcnt passed to the
\* MIC derivation and to the FRMPayload decryption, is the caller's
\* upper_fcnt followed by the two wire bytes body[5..7] reversed.
C3_FCntCarriesUpperFCnt ==
    (ParsedPhyPdu /\ result.kind = "MACPayload" /\ result.exc = NoExc)
    => LET body == PySlice(call.phy_pdu, 1, 0 - MIC_SIZE)
           fcnt == call.upper_fcnt \o Reverse(PySlice(body, 5, 7))
       IN  /\ result.ret["body"]["fcnt"] = fcnt
           /\ result.integrity # None => result.integrity[1].fcnt = fcnt
           /\ result.encryption # None => result.encryption[1].fcnt = fcnt

\* C6: a Join Accept of 17 or 33 bytes parsed with an AppKey and version
\* "1.0" returns its tree (appnonce, netid, devaddr, rxdelay, MIC), the same
\* as with another version.
C6_JoinAcceptVersion10 ==
    (ParsedPhyPdu /\ result.kind = "JoinAccept" /\ call.appkey # None
        /\ call.version = "1.0" /\ Len(call.phy_pdu) \in {17, 33})
    => LET other == parse_phy_pdu([call EXCEPT !.version = "1.0.3"],
                                  opt, __parse_only)
       IN  /\ result.exc = NoExc
           /\ "mic" \in DOMAIN result.ret
           /\ result.ret["mic"] = other.ret["mic"]
           /\ \A k \in {"appnonce", "netid", "devaddr", "rxdelay"} :
                  /\ k \in DOMAIN result.ret["body"]
                  /\ result.ret["body"][k] = other.ret["body"][k]

\* the numbers of the CF lines printed
CFNumbers(lines) ==
    {lines[j][3] : j \in {i \in 1..Len(lines) :
                              Len(lines[i]) = 3 /\ lines[i][2] = "CF"}}

\* C10: the region of the option decides the CFList of a 33-byte Join
\* Accept: AS923 numbers the five channels from 2, EU868 from 3, and US920
\* ends as not implemented.
C10_RegionControlsCFList ==
    (ParsedPhyPdu /\ result.kind = "JoinAccept" /\ Len(call.phy_pdu) = 33
        /\ call.appkey # None /\ call.version # "1.0" /\ call.option # None
        /\ ~call.parse_only)
    => LET region == call.option[1].region
       IN  CASE region = "AS923" ->
                    result.exc = NoExc /\ CFNumbers(result.lines) = 2..6
             [] region = "EU868" ->
                    result.exc = NoExc /\ CFNumbers(result.lines) = 3..7
             [] region = "US920" ->
                    result.exc = "NotImplementedError"

----------------------------------------------------------------------------
(* Properties of parse_mac_cmd and mac_cmd_tab, checked under SpecMacCmd *)

ParsedMacCmd == pc = "done" /\ call.fn = "parse_mac_cmd"

\* C7: for every CID and direction of mac_cmd_tab, the decoder handed a
\* payload of the size of the table returns without raising.
C7_DecodersComplete ==
    ParsedMacCmd
    => \A i \in 1..Len(result.cmds) :
           Len(result.cmds[i].cmd) >= result.cmds[i].size
               => result.cmds[i].exc = NoExc

\* C8: at a CID that mac_cmd_tab does not hold, parse_mac_cmd warns, parses
\* nothing from that offset on, and returns the commands that came before.
C8_UnknownCidReturnsPreceding ==
    (ParsedMacCmd /\ result.stopped # None)
    => /\ result.exc = NoExc
       /\ result.warns # <<>>
       /\ \A i \in 1..Len(result.cmds) :
              result.cmds[i].offset + result.cmds[i].size < result.stopped[1]
       /\ Len(result.cmds) > 0 =>
              /\ result.ret # None
              /\ Len(result.ret) = Len(result.cmds)

\* C9: mac_cmd_tab holds the 15 CIDs 0x01-0x0A, 0x10-0x13 and 0x20 and no
\* other, each with both directions, and each direction with the name and
\* the size of the table of the specification (CID, UP name, UP size, DOWN
\* name, DOWN size); a command parse_mac_cmd decodes goes by that name and
\* size.
C9_Registry ==
    \A rows \in
        {   (1  :> <<"ResetInd", 1,           "ResetConf", 1>>)
         @@ (2  :> <<"LinkCheckReq", 0,       "LinkCheckAns", 2>>)
         @@ (3  :> <<"LinkADRAns", 1,         "LinkADRReq", 4>>)
         @@ (4  :> <<"DutyCycleAns", 0,       "DutyCycleReq", 1>>)
         @@ (5  :> <<"RXParamSetupAns", 1,    "RXParamSetupReq", 4>>)
         @@ (6  :> <<"DevStatusAns", 2,       "DevStatusReq", 0>>)
         @@ (7  :> <<"NewChannelAns", 1,      "NewChannelReq", 5>>)
         @@ (8  :> <<"RXTimingSetupAns", 0,   "RXTimingSetupReq", 1>>)
         @@ (9  :> <<"TxParamSetupAns", 0,    "TxParamSetupReq", 1>>)
         @@ (10 :> <<"DlChannelAns", 1,       "DlChannelReq", 4>>)
         @@ (16 :> <<"PingSlotInfoReq", 1,    "PingSlotInfoAns", 0>>)
         @@ (17 :> <<"PingSlotChannelAns", 4, "PingSlotChannelReq", 4>>)
         @@ (18 :> <<"BeaconTimingReq", 0,    "BeaconTimingAns", 3>>)
         @@ (19 :> <<"BeaconFreqAns", 1,      "BeaconFreqReq", 3>>)
         @@ (32 :> <<"DeviceModeInd", 1,      "DeviceModeConf", 1>>)} :
        LET name(cid, d) == IF d = MSGDIR_UP THEN rows[cid][1] ELSE rows[cid][3]
            size(cid, d) == IF d = MSGDIR_UP THEN rows[cid][2] ELSE rows[cid][4]
        IN  /\ DOMAIN rows = (1..10) \cup (16..19) \cup {32}
            /\ DOMAIN mac_cmd_tab = DOMAIN rows
            /\ Cardinality(DOMAIN mac_cmd_tab) = 15
            /\ \A cid \in DOMAIN mac_cmd_tab :
                   /\ DOMAIN mac_cmd_tab[cid] = {MSGDIR_UP, MSGDIR_DOWN}
                   /\ \A d \in {MSGDIR_UP, MSGDIR_DOWN} :
                          /\ mac_cmd_tab[cid][d].name = name(cid, d)
                          /\ mac_cmd_tab[cid][d].size = size(cid, d)
            /\ ParsedMacCmd =>
                   \A i \in 1..Len(result.cmds) :
                       /\ result.cmds[i].cid \in DOMAIN rows
                       /\ result.cmds[i].name = name(result.cmds[i].cid, call.msg_dir)
                       /\ result.cmds[i].size = size(result.cmds[i].cid, call.msg_dir)
                       /\ Len(result.cmds[i].cmd) <= result.cmds[i].size + 1

\* two commands decoded in a row, the second of them PingSlotChannelAns
C9_Witness ==
    /\ ParsedMacCmd
    /\ call.msg_dir = MSGDIR_UP
    /\ Len(result.cmds) = 2
    /\ result.cmds[2].cid = 17
    /\ result.cmds[2].exc = NoExc
    /\ Len(result.cmds[2].cmd) = 4

----------------------------------------------------------------------------
(* Properties of the cipher layer, checked under SpecCipher. The block      *)
(* cipher of the library is taken to be a bijection of the blocks for each  *)
(* key, as AES is.                                                          *)

\* C4: lorawan_frmp_encryption returns a buffer as long as the message,
\* whatever its length, and applied to that buffer with the same key,
\* devaddr, msg_dir and fcnt it returns the message.
C4_FrmpInvolution ==
    (pc = "done" /\ call.fn = "lorawan_frmp_encryption")
    => /\ Len(result.ret) = Len(call.msg)
       /\ hist # None => result.ret = hist[1].call.msg

\* a message of more than one block with a short last block, encrypted to
\* something else and back
C4_Witness ==
    /\ pc = "done"
    /\ call.fn = "lorawan_frmp_encryption"
    /\ hist # None
    /\ Len(call.msg) > 16
    /\ Len(call.msg) % 16 # 0
    /\ call.msg # hist[1].call.msg
    /\ result.ret = hist[1].call.msg

\* C5: for a body B of a multiple of 16 bytes, aes128_encrypt(K,
\* aes128_decrypt(K, B)) is B, block by block, nothing added.
C5_EncryptOfDecrypt ==
    (pc = "done" /\ call.fn = "aes128_encrypt" /\ hist # None)
    => LET B == hist[1].call.data
           D == hist[1].result.ret
       IN  /\ Len(B) % BlockSize = 0
           /\ Len(result.ret) = Len(B)
           /\ result.ret = B
           /\ \A k \in 0..((Len(B) \div BlockSize) - 1) :
                  aes128_encrypt(call.key, PySlice(D, 16 * k, 16 * k + 16))
                      = PySlice(B, 16 * k, 16 * k + 16)

\* a body of two blocks decrypted to something else and encrypted back
C5_Witness ==
    /\ pc = "done"
    /\ call.fn = "aes128_encrypt"
    /\ hist # None
    /\ Len(hist[1].call.data) = 32
    /\ hist[1].result.ret # hist[1].call.data
    /\ result.ret = hist[1].call.data

----------------------------------------------------------------------------
(* Two invocations of parse_phy_pdu whose steps interleave. Under this      *)
(* specification pc, call and result are functions of the invocation.       *)

Invocations == {1, 2}

\* a Join Accept parsed without the AppKey (it warns) and a Join Request
ReentrantPdus == {<<32, 237, 141, 26, 123, 17, 234, 205, 211, 245, 45, 252, 57,
                    15, 255, 119, 226>>,
                  JoinRequestPdu}

\* each invocation passes its own parse_only and its own option
ReentrantArgs ==
    {[DefaultArgs EXCEPT !.parse_only = po, !.option = o] :
        po \in BOOLEAN, o \in Options \ {None}}

InitReentrant ==
    /\ opt = [debug_level |-> 0, verbose |-> FALSE]
    /\ __parse_only = FALSE
    /\ pc = [i \in Invocations |-> "idle"]
    /\ call = [i \in Invocations |-> None]
    /\ result = [i \in Invocations |-> None]
    /\ hist = None

\* Invocation i is called and runs up to the banner: it checks the PDU and
\* writes the globals __parse_only and opt.
Enter(i) ==
    /\ pc[i] = "idle"
    /\ \E phy_pdu \in ReentrantPdus, kw \in ReentrantArgs :
        /\ call' = [call EXCEPT ![i] =
                        ("fn" :> "parse_phy_pdu") @@ ("phy_pdu" :> phy_pdu) @@ kw]
        /\ IF Len(phy_pdu) = 0
           THEN /\ result' = [result EXCEPT ![i] = RaisedOnEmpty]
                /\ pc' = [pc EXCEPT ![i] = "done"]
                /\ UNCHANGED <<opt, __parse_only>>
           ELSE /\ __parse_only' = kw.parse_only
                /\ opt' = IF kw.option # None THEN kw.option[1] ELSE opt
                /\ pc' = [pc EXCEPT ![i] = "entered"]
                /\ result' = result
    /\ hist' = hist

\* Invocation i runs from the banner to its return, reading the globals as
\* they stand now.
Rest(i) ==
    /\ pc[i] = "entered"
    /\ \E r \in {parse_phy_pdu_rest(call[i], opt, __parse_only)} :
        result' = [result EXCEPT ![i] = r]
    /\ pc' = [pc EXCEPT ![i] = "done"]
    /\ UNCHANGED <<opt, __parse_only, call, hist>>

NextReentrant == \E i \in Invocations : Enter(i) \/ Rest(i)

SpecReentrant == InitReentrant /\ [][NextReentrant]_vars

----------------------------------------------------------------------------
(* Properties of interleaved invocations, checked under SpecReentrant *)

\* what the invocation with arguments a renders and returns by its own
\* arguments alone (a.option is given, so no global is read)
OwnOutcome(a) ==
    parse_phy_pdu_rest(a, a.option[1], a.parse_only)

\* C11: two invocations of parse_phy_pdu whose steps interleave or follow
\* one another, each with its own parse_only and option, behave
\* independently: what each renders and returns depends only on its own
\* arguments.
C11_InvocationsIndependent ==
    \A i \in Invocations :
        pc[i] = "done" =>
            /\ result[i].lines = OwnOutcome(call[i]).lines
            /\ result[i].exc = OwnOutcome(call[i]).exc
            /\ result[i].ret = OwnOutcome(call[i]).ret

----------------------------------------------------------------------------
(* Further properties of parse_phy_pdu, checked under Spec *)

\* C12: with parse_only=True no rendering output at all is emitted (field
\* lines, detail text and warnings alike), for every PDU and every option
\* record for which the tree is returned.
C12_ParseOnlyIsSilent ==
    (ParsedPhyPdu /\ call.parse_only /\ result.exc = NoExc)
    => result.lines = <<>>

\* the key the derived MIC of a frame of the given kind is computed with
\* (None when it was not supplied, or when the kind has no derived MIC)
MicKey(kind, a) ==
    CASE kind \in {"JoinReq", "JoinAccept"} -> a.appkey
      [] kind = "MACPayload" -> a.nwkskey
      [] OTHER -> None

\* C13: in every returned tree a derived MIC is present exactly when the
\* relevant key was supplied: the AppKey for Join Request and Join Accept,
\* the NwkSKey for the four data types; never for RFU or Proprietary.
C13_MicDerivedIffKey ==
    (ParsedPhyPdu /\ result.exc = NoExc)
    => ("mic_derived" \in DOMAIN result.ret["body"]
            <=> MicKey(result.kind, call) # None)

\* a Join Accept decrypted with the AppKey, its derived MIC in the tree
C13_Witness ==
    /\ ParsedPhyPdu
    /\ result.exc = NoExc
    /\ result.kind = "JoinAccept"
    /\ call.appkey # None
    /\ "mic_derived" \in DOMAIN result.ret["body"]

\* C14: a Join Accept parsed without the AppKey returns early and does not
\* raise: the body carries no decoded field (so no derived MIC either) and
\* no MIC in the frame is surfaced; among the returned trees those of such
\* Join Accepts are the only ones without the MIC in the frame.
C14_JoinAcceptWithoutAppKey ==
    ParsedPhyPdu =>
        /\ (result.kind = "JoinAccept" /\ call.appkey = None)
               => /\ result.exc = NoExc
                  /\ DOMAIN result.ret["body"] = {}
                  /\ "mic" \notin DOMAIN result.ret
        /\ (result.exc = NoExc /\ "mic" \notin DOMAIN result.ret)
               => (result.kind = "JoinAccept" /\ call.appkey = None)

\* the 17-byte Join Accept returned undecoded for want of the AppKey
C14_Witness ==
    /\ ParsedPhyPdu
    /\ result.kind = "JoinAccept"
    /\ Len(call.phy_pdu) = 17
    /\ call.appkey = None
    /\ result.exc = NoExc
    /\ result.ret["body"] = <<>>
    /\ "not decrypt Join Accept due to no AppKey specified." \in
           {result.warns[i] : i \in DOMAIN result.warns}

\* the FPort of a data frame as it stands on the wire: the byte after the
\* MHDR, the 7 bytes DevAddr, FCtrl, FCnt and the FOptsLen bytes of FOpts
WireFPort(phy_pdu) == phy_pdu[9 + (phy_pdu[6] % 16)]

\* C15: the FRMPayload of a data frame is decrypted with the NwkSKey only
\* when FPort is 0 and with the AppSKey only when FPort is not 0, never with
\* the other key; when the key needed is absent the decryption is skipped
\* and the tree still carries devaddr, fctrl, fcnt and fport but no
\* decrypted payload.
C15_FrmPayloadKey ==
    (ParsedPhyPdu /\ result.kind = "MACPayload") =>
        /\ result.encryption # None =>
              LET e == result.encryption[1]
              IN  IF WireFPort(call.phy_pdu) = 0
                  THEN e.keyname = "nwkskey" /\ call.nwkskey = Some(e.key)
                  ELSE e.keyname = "appskey" /\ call.appskey = Some(e.key)
        /\ (result.exc = NoExc /\ "fport" \in DOMAIN result.ret["body"]) =>
              LET body == result.ret["body"]
                  key  == IF body["fport"] = 0 THEN call.nwkskey ELSE call.appskey
              IN  /\ body["fport"] = WireFPort(call.phy_pdu)
                  /\ key = None =>
                        /\ result.encryption = None
                        /\ "payload" \notin DOMAIN body
                        /\ {"devaddr", "fctrl", "fcnt"} \subseteq DOMAIN body
                  /\ "payload" \in DOMAIN body =>
                        /\ key # None
                        /\ result.encryption # None

\* an application payload on FPort 1 decrypted with the AppSKey while the
\* NwkSKey is given too
C15_Witness ==
    /\ ParsedPhyPdu
    /\ result.kind = "MACPayload"
    /\ result.exc = NoExc
    /\ call.nwkskey # None
    /\ call.appskey # None
    /\ result.encryption # None
    /\ result.ret["body"]["fport"] = 1
    /\ result.encryption[1].keyname = "appskey"
    /\ result.ret["body"]["payload"] = <<104, 105, 33>>

\* C16: for every data frame a tree is returned for, the FOpts byte string
\* handed to the MAC-command parser has length exactly FOptsLen.
C16_FOptsHaveFOptsLen ==
    (ParsedPhyPdu /\ result.kind = "MACPayload" /\ result.exc = NoExc
        /\ result.mac_cmds # None)
    => Len(result.mac_cmds[1]) = result.ret["body"]["fctrl"]["foptslen"]

\* a data frame whose body ends with the FHDR: 7 + FOptsLen bytes between
\* the MHDR and the 4 bytes of the MIC
EndsWithFHDR(phy_pdu) ==
    /\ Len(phy_pdu) >= 12
    /\ Len(phy_pdu) - 5 = 7 + (phy_pdu[6] % 16)

\* C17: a data frame with no byte after the FHDR (body length 7 + FOptsLen)
\* is parsed into a tree that holds devaddr, fctrl, fcnt and fopts; fport is
\* absent and no decryption is attempted, even when both the NwkSKey and the
\* AppSKey are supplied.
C17_FHDROnlyFrame ==
    (ParsedPhyPdu /\ result.kind = "MACPayload" /\ EndsWithFHDR(call.phy_pdu))
    => /\ result.exc = NoExc
       /\ {"devaddr", "fctrl", "fcnt", "fopts"} \subseteq DOMAIN result.ret["body"]
       /\ "fport" \notin DOMAIN result.ret["body"]
       /\ result.encryption = None

\* C18: every warning condition met during a parse (unknown CID, MIC or
\* decryption skipped for a missing key, PDU length mismatch) is surfaced to
\* the caller as a diagnostic attached to the returned result, whatever the
\* verbosity: the tree carries a diagnostics list with one entry for each.
C18_WarningsAreDiagnostics ==
    (ParsedPhyPdu /\ result.exc = NoExc /\ result.warns # <<>>)
    => /\ "diagnostics" \in DOMAIN result.ret
       /\ Len(result.ret["diagnostics"]) = Len(result.warns)

\* the bytes of s from the last to the first
BackToFront(s) == [i \in 1..Len(s) |-> s[Len(s) + 1 - i]]

----------------------------------------------------------------------------
(* Property of lorawan_get_keys, checked under SpecCipher *)

\* the single block the key with leading byte lead is the encryption of
KeyBlock(lead, c) ==
    <<lead>> \o BackToFront(c.appnonce) \o BackToFront(c.netid)
        \o BackToFront(c.devnonce) \o <<0, 0, 0, 0, 0, 0, 0>>

\* C20: for an AppNonce of 3 bytes, a NetID of 3 bytes and a DevNonce of 2
\* bytes in host order, lorawan_get_keys encrypts exactly one block of 16
\* bytes for each key: 0x01 (NwkSKey) or 0x02 (AppSKey) followed by the
\* AppNonce reversed, the NetID reversed, the DevNonce reversed and 7 zero
\* bytes; both keys are 16 bytes long and the blocks they come from differ
\* in the leading byte only.
C20_GetKeys ==
    (pc = "done" /\ call.fn = "lorawan_get_keys" /\ Len(call.appnonce) = 3
        /\ Len(call.netid) = 3 /\ Len(call.devnonce) = 2)
    => /\ Len(KeyBlock(1, call)) = 16
       /\ result.ret.nwkskey = AES_encrypt(call.appkey, KeyBlock(1, call))
       /\ result.ret.appskey = AES_encrypt(call.appkey, KeyBlock(2, call))
       /\ Len(result.ret.nwkskey) = 16
       /\ Len(result.ret.appskey) = 16
       /\ AES_decrypt(call.appkey, result.ret.nwkskey)
              = [AES_decrypt(call.appkey, result.ret.appskey) EXCEPT ![1] = 1]

\* keys derived from DevNonce E3 17, AppNonce 1A 8D ED and NetID EA 11 7B
C20_Witness ==
    /\ pc = "done"
    /\ call.fn = "lorawan_get_keys"
    /\ call.devnonce = <<227, 23>>
    /\ call.appnonce = <<26, 141, 237>>
    /\ call.netid = <<234, 17, 123>>
    /\ AES_decrypt(call.appkey, result.ret.nwkskey)
           = <<1, 237, 141, 26, 123, 17, 234, 23, 227, 0, 0, 0, 0, 0, 0, 0>>
    /\ result.ret.nwkskey # result.ret.appskey

----------------------------------------------------------------------------
(* Properties of the version argument and of the FCtrl labels, checked     *)
(* under Spec                                                               *)

\* what a returned record tells of the parse: the exception, the tree, the
\* lines rendered, the warnings and the decoder calls
Outcome(r) == <<r.exc, r.ret, r.lines, r.warns, r.cmds, r.frm_cmds>>

\* C21: the version "1.1" is accepted and yields, for every PDU and every
\* key set, the same parse result and the same field interpretation as the
\* version "1.0.3".
C21_Version11As103 ==
    (ParsedPhyPdu /\ call.version = "1.1")
    => \A other \in {parse_phy_pdu([call EXCEPT !.version = "1.0.3"],
                                   [debug_level |-> 0, verbose |-> FALSE], FALSE)} :
           Outcome(result) = Outcome(other)

\* a Join Accept decrypted under version "1.1", its DLSettings decoded
C21_Witness ==
    /\ ParsedPhyPdu
    /\ call.version = "1.1"
    /\ result.kind = "JoinAccept"
    /\ call.appkey # None
    /\ result.exc = NoExc
    /\ "rx1droffset" \in DOMAIN result.ret["body"]


\* C26: the FCtrl bits are labelled by direction and version: on DOWN frames
\* bit 6 is ADRACKReq for versions other than "1.0" and RFU for "1.0", and
\* bit 4 is FPending; on UP frames bit 6 is ADRACKReq, and bit 4 is ClassB
\* for versions other than "1.0" and RFU for "1.0"; bit 7 is ADR, bit 5 is
\* ACK and bits 3..0 are FOptsLen in both directions.
C26_FCtrlLabels ==
    (ParsedPhyPdu /\ result.kind = "MACPayload"
        /\ \E k \in 1..Len(result.lines) : result.lines[k] = <<"print_v", "FCtrl">>)
    => LET k      == CHOOSE j \in 1..Len(result.lines) :
                         result.lines[j] = <<"print_v", "FCtrl">>
           down   == MTypeDir(call.phy_pdu[1] \div 32) = MSGDIR_DOWN
           later  == call.version # "1.0"
           labels == [j \in 1..5 |-> result.lines[k + j][2]]
           fctrl  == call.phy_pdu[6]
           o      == result.ret["body"]["fctrl"]
       IN  /\ labels = IF down
                       THEN <<"ADR", IF later THEN "ADRACKReq" ELSE "RFU", "ACK",
                              "FPending", "FOptsLen">>
                       ELSE <<"ADR", "ADRACKReq", "ACK",
                              IF later THEN "ClassB" ELSE "RFU", "FOptsLen">>
           /\ result.exc = NoExc
              => /\ o["adr"] = fctrl \div 128
                 /\ o["ack"] = (fctrl \div 32) % 2
                 /\ o["foptslen"] = fctrl % 16
                 /\ down => o["fpending"] = (fctrl \div 16) % 2
                 /\ ~down => /\ o["adrackreq"] = (fctrl \div 64) % 2
                             /\ o["classb"] = (fctrl \div 16) % 2

----------------------------------------------------------------------------
(* lorawan_a2b_hex.py. A Python string is the sequence of its characters,   *)
(* each a string of length one; the argument buf is a record of its kind    *)
(* ("none", "str" or "list") and of the strings v it holds: none, the one   *)
(* string, or the strings of the list.                                      *)

HexLower == <<"0", "1", "2", "3", "4", "5", "6", "7", "8", "9",
              "a", "b", "c", "d", "e", "f">>
HexUpper == <<"0", "1", "2", "3", "4", "5", "6", "7", "8", "9",
              "A", "B", "C", "D", "E", "F">>

\* the characters \s of a regular expression matches, among those used here
Whitespace == {" ", "\t", "\n"}

\* "".join(parts)
RECURSIVE StrJoin(_)
StrJoin(parts) ==
    IF parts = <<>> THEN <<>> ELSE Head(parts) \o StrJoin(Tail(parts))

\* s.split(sep); first is s up to its first sep (all of s when it has none)
RECURSIVE StrSplit(_, _)
StrSplit(s, sep) ==
    LET seps  == {k \in 1..Len(s) : s[k] = sep}
        first == IF seps = {} THEN s
                 ELSE SubSeq(s, 1, (CHOOSE k \in seps : \A j \in seps : k <= j) - 1)
    IN  IF Len(first) = Len(s) THEN <<first>>
        ELSE <<first>> \o StrSplit(SubSeq(s, Len(first) + 2, Len(s)), sep)

\* a faulty padding: the "0" is put after the digit
rjust2_on_the_right(i) == i \o [k \in 1..(2 - Len(i)) |-> "0"]

\* i.rjust(2, "0")
rjust2(i) == [k \in 1..(2 - Len(i)) |-> "0"] \o i

\* "".join([i.rjust(2,"0") for i in buf.split(".")])
dotted_hexstr(buf) ==
    LET parts == StrSplit(buf, ".")
    IN  StrJoin([k \in 1..Len(parts) |-> rjust2(parts[k])])

\* re.sub(r"([,\s\n]|0x)", "", buf)
RECURSIVE strip_separators(_)
strip_separators(buf) ==
    IF buf = <<>> THEN <<>>
    ELSE IF Head(buf) = "," \/ Head(buf) \in Whitespace
    THEN strip_separators(Tail(buf))
    ELSE IF Len(buf) >= 2 /\ buf[1] = "0" /\ buf[2] = "x"
    THEN strip_separators(SubSeq(buf, 3, Len(buf)))
    ELSE <<Head(buf)>> \o strip_separators(Tail(buf))

\* bytearray.fromhex(hexstr): two hex digits for each byte, whitespace
\* allowed between the bytes and not between the digits of one
fromhex(hexstr) ==
    LET IsHex(c)  == \E v \in 1..16 : HexLower[v] = c \/ HexUpper[v] = c
        HexVal(c) == (CHOOSE v \in 1..16 : HexLower[v] = c \/ HexUpper[v] = c) - 1
        digits    == SelectSeq(hexstr, LAMBDA c : c \notin Whitespace)
        \* the characters before position p that are no whitespace
        before(p) == Cardinality({q \in 1..(p - 1) : hexstr[q] \notin Whitespace})
    IN  IF \/ Len(digits) % 2 = 1
           \/ \E k \in 1..Len(digits) : ~IsHex(digits[k])
           \/ \E p \in 1..Len(hexstr) :
                  hexstr[p] \in Whitespace /\ before(p) % 2 = 1
        THEN [exc |-> "ValueError", ret |-> None]
        ELSE TheOnly({[exc |-> NoExc,
                       ret |-> SubSeq([k \in 1..(Len(d) \div 2) |->
                                          16 * HexVal(d[2 * k - 1]) + HexVal(d[2 * k])],
                                      1, Len(d) \div 2)] :
                      d \in {digits}})

\* b64decode(s) as the library decodes without validation: characters
\* outside the alphabet are skipped, padding that completes a group ends
\* the decoding, a group left incomplete is an error
b64decode(s) ==
    LET B64Alphabet ==
            <<"A", "B", "C", "D", "E", "F", "G", "H", "I", "J", "K", "L", "M",
              "N", "O", "P", "Q", "R", "S", "T", "U", "V", "W", "X", "Y", "Z",
              "a", "b", "c", "d", "e", "f", "g", "h", "i", "j", "k", "l", "m",
              "n", "o", "p", "q", "r", "s", "t", "u", "v", "w", "x", "y", "z",
              "0", "1", "2", "3", "4", "5", "6", "7", "8", "9", "+", "/">>
        B64Val(c) == (CHOOSE v \in 1..64 : B64Alphabet[v] = c) - 1
        \* the bytes the 6-bit values of one group stand for: 4 values give
        \* 3 bytes, 3 values 2 bytes, 2 values 1 byte
        B64Bytes(q) ==
            LET n == IF Len(q) >= 2
                     THEN q[1] * 262144 + q[2] * 4096
                          + (IF Len(q) >= 3 THEN q[3] * 64 ELSE 0)
                          + (IF Len(q) >= 4 THEN q[4] ELSE 0)
                     ELSE 0
                all == <<n \div 65536, (n \div 256) % 256, n % 256>>
            IN  SubSeq(all, 1, Max(Len(q) - 1, 0))
        \* t: the text left, quad: the values of the group begun, pads:
        \* the "=" met in it
        RECURSIVE loop(_, _, _)
        loop(t, quad, pads) ==
            IF t = <<>>
            THEN IF quad = <<>> THEN [exc |-> NoExc, ret |-> <<>>]
                 ELSE [exc |-> "Error", ret |-> None]
            ELSE IF Head(t) = "="
            THEN IF Len(quad) >= 2 /\ Len(quad) + pads + 1 >= 4
                 THEN [exc |-> NoExc, ret |-> B64Bytes(quad)]
                 ELSE loop(Tail(t), quad, IF Len(quad) >= 2 THEN pads + 1 ELSE pads)
            ELSE IF \A v \in 1..64 : B64Alphabet[v] # Head(t)
            THEN loop(Tail(t), quad, pads)
            ELSE IF Len(quad) = 3
            THEN TheOnly({IF r.exc # NoExc THEN r
                          ELSE [exc |-> NoExc,
                                ret |-> B64Bytes(quad \o <<B64Val(Head(t))>>) \o r.ret] :
                          r \in {loop(Tail(t), <<>>, 0)}})
            ELSE loop(Tail(t), quad \o <<B64Val(Head(t))>>, 0)
    IN  loop(s, <<>>, 0)

\* a2b_hex returns None for None and the bytes (here <<bytes>>) otherwise
a2b_hex(buf, string_type) ==
    LET joined == IF buf.kind = "list" THEN StrJoin(buf.v) ELSE buf.v[1]
        hexstr == IF \E k \in DOMAIN joined : joined[k] = "."
                  THEN dotted_hexstr(joined)
                  ELSE strip_separators(joined)
        returned(r) == [exc |-> r.exc,
                        ret |-> IF r.exc = NoExc THEN Some(r.ret) ELSE None]
    IN  IF buf.kind = "none" THEN [exc |-> NoExc, ret |-> None]
        ELSE IF string_type = "base64"
        THEN TheOnly({returned(r) : r \in {b64decode(joined)}})
        ELSE IF Len(hexstr) % 2 = 1 THEN [exc |-> "ValueError", ret |-> None]
        ELSE TheOnly({returned(r) : r \in {fromhex(hexstr)}})

(* a2b_hex called on its own *)

\* a byte sequence given to a2b_hex holds at most this many bytes
MaxHexBytes == 2

\* the byte sequences of at most n bytes, of the bytes 00, 09, 40 and c1
RECURSIVE ByteSeqs(_)
ByteSeqs(n) ==
    IF n = 0 THEN {<<>>}
    ELSE LET shorter == ByteSeqs(n - 1)
         IN  shorter \cup {s \o <<b>> : s \in {t \in shorter : Len(t) = n - 1},
                                        b \in {0, 9, 64, 193}}

\* the forms of hex string a caller writes a byte sequence in
Forms == {"plain", "comma", "space", "0x_space", "0x_comma", "dotted2", "dotted1"}

\* the bytes bs written in a form, each byte with its hex digits
Rendering(bs, form) ==
    LET \* the renderings of the bytes with sep between them
        RECURSIVE JoinWith(_, _)
        JoinWith(items, sep) ==
            IF items = <<>> THEN <<>>
            ELSE IF Len(items) = 1 THEN items[1]
            ELSE items[1] \o sep \o JoinWith(Tail(items), sep)
        Hex2(b, digits) == <<digits[(b \div 16) + 1], digits[(b % 16) + 1]>>
        two(digits) == [k \in 1..Len(bs) |-> Hex2(bs[k], digits)]
        pre         == [k \in 1..Len(bs) |-> <<"0", "x">> \o Hex2(bs[k], HexUpper)]
        short       == [k \in 1..Len(bs) |->
                           IF bs[k] < 16 THEN <<HexLower[bs[k] + 1]>>
                           ELSE Hex2(bs[k], HexLower)]
    IN  CASE form = "plain"    -> JoinWith(two(HexLower), <<>>)
          [] form = "comma"    -> JoinWith(two(HexUpper), <<",", " ">>)
          [] form = "space"    -> JoinWith(two(HexUpper), <<" ">>)
          [] form = "0x_space" -> JoinWith(pre, <<" ">>)
          [] form = "0x_comma" -> JoinWith(pre, <<",">>)
          [] form = "dotted2"  -> JoinWith(two(HexLower), <<".">>)
          [] form = "dotted1"  -> JoinWith(short, <<".">>)

\* what callers pass: a byte sequence written in one of the forms; no
\* value; the words of a command line; base64 text; text that is no hex
A2bInputs ==
    {[buf |-> [kind |-> "str", v |-> <<Rendering(bs, form)>>], string_type |-> "hexstr",
      bytes |-> Some(bs), form |-> form] :
        bs \in ByteSeqs(MaxHexBytes), form \in Forms}
    \cup {[buf |-> [kind |-> "none", v |-> <<>>], string_type |-> "hexstr",
           bytes |-> None, form |-> ""],
          [buf |-> [kind |-> "list", v |-> << <<"4", "0", "C", "1">>, <<"D", "2">> >>],
           string_type |-> "hexstr", bytes |-> Some(<<64, 193, 210>>), form |-> ""],
          [buf |-> [kind |-> "str", v |-> <<<<"Q", "M", "H", "S">>>>],
           string_type |-> "base64", bytes |-> Some(<<64, 193, 210>>), form |-> ""],
          [buf |-> [kind |-> "str", v |-> <<<<"Q", "M", "E", "=">>>>],
           string_type |-> "base64", bytes |-> Some(<<64, 193>>), form |-> ""],
          [buf |-> [kind |-> "str", v |-> <<<<"Q", "M", "H">>>>],
           string_type |-> "base64", bytes |-> None, form |-> ""],
          [buf |-> [kind |-> "str", v |-> <<<<"4", "g">>>>],
           string_type |-> "hexstr", bytes |-> None, form |-> ""]}

\* a2b_hex(buf, string_type=...); bytes and form tell what the caller
\* wrote buf from
A2bHex ==
    /\ pc = "idle"
    /\ \E i \in A2bInputs :
        /\ call' = [fn |-> "a2b_hex", buf |-> i.buf, string_type |-> i.string_type,
                    bytes |-> i.bytes, form |-> i.form]
        /\ result' = a2b_hex(i.buf, i.string_type)
    /\ pc' = "done"
    /\ UNCHANGED <<opt, __parse_only, hist>>

SpecA2bHex == Init /\ [][A2bHex]_vars

\* C22, as stated: for each byte sequence, its plain hex string, its comma-separated,
\* whitespace-separated and "0x"-prefixed renderings with two digits for
\* each byte, and its dotted rendering with one or two digits for each
\* byte, all normalise through a2b_hex to that same byte sequence.
C22_RenderingsNormalise ==
    (pc = "done" /\ call.fn = "a2b_hex" /\ call.form \in Forms)
    => /\ result.exc = NoExc
       /\ result.ret = call.bytes

\* C22, amended: for each byte sequence, its plain hex string, its
\* comma-separated, whitespace-separated and "0x"-prefixed renderings with
\* two digits for each byte and its dotted rendering with two digits for
\* each byte normalise through a2b_hex to that same byte sequence; so does
\* its dotted rendering with one digit for the bytes below 16, unless the
\* sequence is a single byte below 16, whose one digit a2b_hex refuses with
\* a ValueError.
C22_RenderingsNormaliseButOneDigit ==
    (pc = "done" /\ call.fn = "a2b_hex" /\ call.form \in Forms)
    => IF call.form = "dotted1" /\ Len(call.bytes[1]) = 1 /\ call.bytes[1][1] < 16
       THEN result.exc = "ValueError"
       ELSE /\ result.exc = NoExc
            /\ result.ret = call.bytes

\* the dotted string 9.c1 normalised to the bytes 09 C1
C22_Witness ==
    /\ pc = "done"
    /\ call.fn = "a2b_hex"
    /\ call.form = "dotted1"
    /\ call.buf.v = << <<"9", ".", "c", "1">> >>
    /\ result.exc = NoExc
    /\ result.ret = Some(<<9, 193>>)

----------------------------------------------------------------------------
(* aes_cmac.py run as a program: the test vectors of RFC 4493 *)

\* s2b(s): bytearray.fromhex(s.replace(" ", ""))
s2b(s) == fromhex(SelectSeq(s, LAMBDA c : c # " ")).ret

\* the strings of test_vectors, character by character
test_vectors ==
    <<[M |-> <<>>,
       A |-> <<"b", "b", "1", "d", "6", "9", "2", "9", " ", "e", "9", "5", "9",
               "3", "7", "2", "8", " ", "7", "f", "a", "3", "7", "d", "1", "2",
               " ", "9", "b", "7", "5", "6", "7", "4", "6">>],
      [M |-> <<"6", "b", "c", "1", "b", "e", "e", "2", " ", "2", "e", "4", "0",
               "9", "f", "9", "6", " ", "e", "9", "3", "d", "7", "e", "1", "1",
               " ", "7", "3", "9", "3", "1", "7", "2", "a">>,
       A |-> <<"0", "7", "0", "a", "1", "6", "b", "4", " ", "6", "b", "4", "d",
               "4", "1", "4", "4", " ", "f", "7", "9", "b", "d", "d", "9", "d",
               " ", "d", "0", "4", "a", "2", "8", "7", "c">>],
      [M |-> <<"\n", " ", " ", " ", " ", " ", " ", " ", " ", " ", " ", " ",
               " ", " ", "6", "b", "c", "1", "b", "e", "e", "2", " ", "2", "e",
               "4", "0", "9", "f", "9", "6", " ", "e", "9", "3", "d", "7", "e",
               "1", "1", " ", "7", "3", "9", "3", "1", "7", "2", "a", "\n",
               " ", " ", " ", " ", " ", " ", " ", " ", " ", " ", " ", " ", " ",
               "a", "e", "2", "d", "8", "a", "5", "7", " ", "1", "e", "0", "3",
               "a", "c", "9", "c", " ", "9", "e", "b", "7", "6", "f", "a", "c",
               " ", "4", "5", "a", "f", "8", "e", "5", "1", "\n", " ", " ",
               " ", " ", " ", " ", " ", " ", " ", " ", " ", " ", " ", "3", "0",
               "c", "8", "1", "c", "4", "6", " ", "a", "3", "5", "c", "e", "4",
               "1", "1">>,
       A |-> <<"d", "f", "a", "6", "6", "7", "4", "7", " ", "d", "e", "9", "a",
               "e", "6", "3", "0", " ", "3", "0", "c", "a", "3", "2", "6", "1",
               " ", "1", "4", "9", "7", "c", "8", "2", "7">>],
      [M |-> <<"\n", " ", " ", " ", " ", " ", " ", " ", " ", " ", " ", " ",
               " ", " ", "6", "b", "c", "1", "b", "e", "e", "2", " ", "2", "e",
               "4", "0", "9", "f", "9", "6", " ", "e", "9", "3", "d", "7", "e",
               "1", "1", " ", "7", "3", "9", "3", "1", "7", "2", "a", "\n",
               " ", " ", " ", " ", " ", " ", " ", " ", " ", " ", " ", " ", " ",
               "a", "e", "2", "d", "8", "a", "5", "7", " ", "1", "e", "0", "3",
               "a", "c", "9", "c", " ", "9", "e", "b", "7", "6", "f", "a", "c",
               " ", "4", "5", "a", "f", "8", "e", "5", "1", "\n", " ", " ",
               " ", " ", " ", " ", " ", " ", " ", " ", " ", " ", " ", "3", "0",
               "c", "8", "1", "c", "4", "6", " ", "a", "3", "5", "c", "e", "4",
               "1", "1", " ", "e", "5", "f", "b", "c", "1", "1", "9", " ", "1",
               "a", "0", "a", "5", "2", "e", "f", "\n", " ", " ", " ", " ",
               " ", " ", " ", " ", " ", " ", " ", " ", " ", "f", "6", "9", "f",
               "2", "4", "4", "5", " ", "d", "f", "4", "f", "9", "b", "1", "7",
               " ", "a", "d", "2", "b", "4", "1", "7", "b", " ", "e", "6", "6",
               "c", "3", "7", "1", "0">>,
       A |-> <<"5", "1", "f", "0", "b", "e", "b", "f", " ", "7", "e", "3", "b",
               "9", "d", "9", "2", " ", "f", "c", "4", "9", "7", "4", "1", "7",
               " ", "7", "9", "3", "6", "3", "c", "f", "e">>]>>

K == <<"2", "b", "7", "e", "1", "5", "1", "6", " ", "2", "8", "a", "e", "d",
       "2", "a", "6", " ", "a", "b", "f", "7", "1", "5", "8", "8", " ", "0",
       "9", "c", "f", "4", "f", "3", "c">>

\* the bytes the loop over test_vectors works on: s2b(K), and s2b(v["M"])
\* and s2b(v["A"]) of each vector v
test_bytes ==
    LET b(i) == [M |-> s2b(test_vectors[i].M), A |-> s2b(test_vectors[i].A)]
    IN  [K |-> s2b(K), v |-> <<b(1), b(2), b(3), b(4)>>]

\* cmac = AES_CMAC(key); cmac.update(data); cmac.digest(), on the bytes of
\* K and of each M and, besides them, on the example of the docstring (the
\* key b"Sixteen byte key", the message b"Hello") and on the messages of
\* every length up to the longest M
AesCmac ==
    /\ pc = "idle"
    /\ \E key \in {test_bytes.K,
                    <<83, 105, 120, 116, 101, 101, 110, 32,
                      98, 121, 116, 101, 32, 107, 101, 121>>},
          data \in {SubSeq(test_bytes.v[4].M, 1, n) : n \in 0..Len(test_bytes.v[4].M)}
                    \cup {<<72, 101, 108, 108, 111>>} :
        /\ call' = [fn |-> "AES_CMAC", key |-> key, data |-> data]
        /\ result' = [exc |-> NoExc, ret |-> CMAC_digest("AES", key, data)]
    /\ pc' = "done"
    /\ UNCHANGED <<opt, __parse_only, hist>>

SpecAesCmac == Init /\ [][AesCmac]_vars

\* C23: AES_CMAC with the key 2b7e1516 28aed2a6 abf71588 09cf4f3c gives the
\* four tags of RFC 4493 bit for bit: bb1d6929 e9593728 7fa37d12 9b756746 for
\* the empty message, 070a16b4 6b4d4144 f79bdd9d d04a287c for the 16-byte one,
\* dfa66747 de9ae630 30ca3261 1497c827 for the 40-byte one and 51f0bebf
\* 7e3b9d92 fc497417 79363cfe for the 64-byte one.
C23_RFC4493Vectors ==
    (pc = "done" /\ call.fn = "AES_CMAC" /\ call.key = test_bytes.K)
    => \A i \in 1..4 :
           call.data = test_bytes.v[i].M
           => result.exc = NoExc /\ result.ret = test_bytes.v[i].A

\* the 40-byte message under K, its tag beginning df a6 67 47
C23_Witness ==
    /\ pc = "done"
    /\ call.fn = "AES_CMAC"
    /\ call.key = test_bytes.K
    /\ Len(call.data) = 40
    /\ SubSeq(result.ret, 1, 4) = <<223, 166, 103, 71>>
    /\ result.ret[16] = 39

----------------------------------------------------------------------------
(* Properties of the values the decoders print, checked under SpecMacCmd *)

\* C24: for every RXTimingSetupReq settings byte the decoded Delay is the
\* low nibble in seconds, except that a low nibble of 0 is decoded as 1
\* second; the decoded Delay is always in 1..15.
C24_DelayInSeconds ==
    ParsedMacCmd
    => \A i \in 1..Len(result.cmds) :
           (result.cmds[i].name = "RXTimingSetupReq" /\ result.cmds[i].exc = NoExc)
           => LET nibble == result.cmds[i].cmd[1] % 16
              IN  /\ result.cmds[i].decoded = Some(IF nibble = 0 THEN 1 ELSE nibble)
                  /\ result.cmds[i].decoded[1] \in 1..15

\* C25: for every DevStatusAns margin byte the decoded Margin is the value
\* of its low 6 bits read as a 6-bit two's-complement integer, v for v in
\* 0..31 and v - 64 for v in 32..63, and lies in -32..31.
C25_MarginTwosComplement ==
    ParsedMacCmd
    => \A i \in 1..Len(result.cmds) :
           (result.cmds[i].name = "DevStatusAns" /\ result.cmds[i].exc = NoExc)
           => LET v == result.cmds[i].cmd[2] % 64
              IN  /\ result.cmds[i].decoded = Some(IF v < 32 THEN v ELSE v - 64)
                  /\ result.cmds[i].decoded[1] \in -32..31

----------------------------------------------------------------------------
(* Properties of the FPort 0 branch of parse_mac_payload, checked under Spec *)

\* C27: whenever a data frame has FPort 0 and a non-empty FOpts, the parser
\* gives the warning of MAC commands in both places and continues; when the
\* NwkSKey is supplied both the commands of FOpts and those of the
\* decrypted FRMPayload of port 0 are parsed.
C27_MacCommandsInBothPlaces ==
    (ParsedPhyPdu /\ result.kind = "MACPayload"
        /\ Len(call.phy_pdu) >= 6
        /\ call.phy_pdu[6] % 16 > 0
        /\ Len(call.phy_pdu) - MIC_SIZE >= 9 + (call.phy_pdu[6] % 16)
        /\ WireFPort(call.phy_pdu) = 0)
    => /\ result.exc = NoExc
       /\ \E k \in 1..Len(result.warns) :
              result.warns[k] = "MAC Commands exist in both FOpts and FRMPayload."
       /\ call.nwkskey # None
          => /\ result.mac_cmds # None
             /\ result.encryption # None
             /\ "payload" \in DOMAIN result.ret["body"]
             /\ "frm_mac" \in DOMAIN result.ret["body"]

----------------------------------------------------------------------------
(* Properties of lorawan_frmp_integrity, checked under SpecCipher *)

\* C28, as stated: for every message msg passed to lorawan_frmp_integrity
\* the CMAC is computed over B0 followed by msg, where B0 is 16 bytes with
\* B0[0] = 0x49, B0[5] = direction, B0[6..10] = devaddr reversed,
\* B0[10..14] = fcnt reversed, B0[15] = len(msg) and all other bytes 0; the
\* mic returned is the first four bytes of the CMAC in reversed order and
\* cmac is the full 16-byte tag.
C28_FrmpIntegrity ==
    (pc = "done" /\ call.fn = "lorawan_frmp_integrity")
    => LET B0 == [i \in 1..16 |->
                     CASE i = 1 -> 73
                       [] i = 6 -> call.msg_dir
                       [] i \in 7..10 -> Reverse(call.devaddr)[i - 6]
                       [] i \in 11..14 -> Reverse(call.fcnt)[i - 10]
                       [] i = 16 -> Len(call.msg)
                       [] OTHER -> 0]
       IN  /\ result.exc = NoExc
           /\ result.ret # None
           /\ result.ret[1].cmac = AES_CMAC_digest(call.key, B0 \o call.msg)
           /\ Len(result.ret[1].cmac) = 16
           /\ result.ret[1].mic = Reverse(SubSeq(result.ret[1].cmac, 1, 4))

\* C28, amended: for every message msg of at most 255 bytes passed to
\* lorawan_frmp_integrity the CMAC is computed over B0 followed by msg, with
\* B0 as above, the mic returned is the first four bytes of the CMAC in
\* reversed order and cmac is the full 16-byte tag; on a longer message,
\* whose length is no byte, lorawan_frmp_integrity raises ValueError.
C28_FrmpIntegrityUpTo255 ==
    (pc = "done" /\ call.fn = "lorawan_frmp_integrity")
    => IF Len(call.msg) > 255
       THEN result.exc = "ValueError"
       ELSE LET B0 == [i \in 1..16 |->
                          CASE i = 1 -> 73
                            [] i = 6 -> call.msg_dir
                            [] i \in 7..10 -> Reverse(call.devaddr)[i - 6]
                            [] i \in 11..14 -> Reverse(call.fcnt)[i - 10]
                            [] i = 16 -> Len(call.msg)
                            [] OTHER -> 0]
            IN  /\ result.exc = NoExc
                /\ result.ret # None
                /\ result.ret[1].cmac = AES_CMAC_digest(call.key, B0 \o call.msg)
                /\ Len(result.ret[1].cmac) = 16
                /\ result.ret[1].mic = Reverse(SubSeq(result.ret[1].cmac, 1, 4))

\* a downlink message of 255 bytes, its MIC taken from its tag
C28_Witness ==
    /\ pc = "done"
    /\ call.fn = "lorawan_frmp_integrity"
    /\ call.msg_dir = DOWN_LINK
    /\ Len(call.msg) = 255
    /\ result.exc = NoExc
    /\ Len(result.ret[1].mic) = 4
    /\ result.ret[1].mic[4] = result.ret[1].cmac[1]

\* ---------------------------------------------------------------------
\* Properties of the loop of parse_mac_cmd, checked under SpecMacCmd
\* ---------------------------------------------------------------------

\* C29: parse_mac_cmd terminates on every byte string: each iteration
\* either stops at an unknown CID or advances the offset by exactly
\* 1 + size(CID, direction) >= 1, so that the iterations are no more than
\* the bytes of the input and the commands are visited in increasing
\* offset order. Of a finished call: the first command is at offset 0,
\* every iteration that handed a command to its decoder went on from the
\* offset 1 + size further, the only iteration that did not is the one at
\* an unknown CID, and the loop left off at that CID or past the last byte.
C29_LoopAdvances ==
    ParsedMacCmd =>
        LET cmds == result.cmds
            n    == Len(cmds)
            after(i) == cmds[i].offset + 1 + cmds[i].size
            iterations == n + (IF result.stopped # None THEN 1 ELSE 0)
            end  == IF n = 0 THEN 0 ELSE after(n)
        IN  /\ n > 0 => cmds[1].offset = 0
            /\ \A i \in 1..n :
                   /\ cmds[i].exc = NoExc
                   /\ after(i) >= cmds[i].offset + 1
                   /\ i < n => cmds[i + 1].offset = after(i)
            /\ \A i, j \in 1..n : i < j => cmds[i].offset < cmds[j].offset
            /\ iterations <= Len(call.mac_cmds)
            /\ IF result.stopped # None
               THEN /\ result.stopped[1] = end
                    /\ call.mac_cmds[end + 1] \notin DOMAIN mac_cmd_tab
               ELSE end >= Len(call.mac_cmds)

\* C30: for every recognised command of a MAC-command sequence, the bytes
\* handed to its decoder, which are the bytes rendered as the command's
\* wire bytes, are exactly the size(CID, direction) bytes that follow the
\* CID, with no byte of the next command, and a command with fewer bytes
\* left than its table size is reported as a length mismatch and not
\* handed to a decoder.
C30_PayloadIsSizeBytes ==
    ParsedMacCmd =>
        LET cmds == result.cmds
            left(i) == Len(call.mac_cmds) - (cmds[i].offset + 1)
            end  == IF cmds = <<>> THEN 0
                    ELSE cmds[Len(cmds)].offset + 1 + cmds[Len(cmds)].size
        IN  /\ \A i \in 1..Len(cmds) :
                   /\ left(i) >= cmds[i].size
                   /\ Len(cmds[i].cmd) = cmds[i].size
                   /\ cmds[i].cmd = SubSeq(call.mac_cmds, cmds[i].offset + 2,
                                           cmds[i].offset + 1 + cmds[i].size)
            /\ (/\ result.exc = NoExc
                /\ end < Len(call.mac_cmds)
                /\ call.mac_cmds[end + 1] \in DOMAIN mac_cmd_tab
                /\ Len(call.mac_cmds) - (end + 1)
                       < mac_cmd_tab[call.mac_cmds[end + 1]][call.msg_dir].size)
               => result.warns # <<>>

====
